---- MODULE Spec2Model ----
(***************************************************************************)
(* Model of GIZIN/ga4-campaign-automation: campaign identity and the       *)
(* attribution URL (src/src/qr_generator.py), and the report aggregation   *)
(* pipeline (src/src/report_generator.py).                                 *)
(*                                                                         *)
(* Text is a sequence of atoms.  An atom is one character ("&", "=", "?",  *)
(* "#", "+", " ", "_"), one percent escape ("%26", "%3D", "%20") or a run  *)
(* of unreserved characters that no operation of the program splits        *)
(* ("utm_source", "Spring", "2024-01-", "05").                             *)
(***************************************************************************)
EXTENDS Integers, Sequences, FiniteSets, TLC

VARIABLES
    campaigns,   \* self.campaigns: the campaign list read from campaigns.yml
    pc,          \* position of the running procedure
    qr_out,      \* (utm_url, campaign_id) returned by build_utm_url, per campaign
    qr_again,    \* build_utm_url applied to its own output, per campaign
    args,        \* arguments of ReportGenerator.run: mode, date, start_date, end_date
    i,           \* index of the campaign the report loop is at
    fetches,     \* requests passed to client.run_report, in call order
    responses,   \* what fetch_campaign_data returned, in call order
    results,     \* the list `results` of the report in progress
    csv,         \* the CSV files written: sequence of [path, rows]
    report_date, \* the local report_date of generate_daily_report (a day)
    printed,     \* diagnostics and summaries printed, in order
    exit_code,   \* process exit status: -1 while running
    env,         \* the files the run reads and the caller's role on the property
    command,     \* the subcommand main.py was started with
    remote,      \* the analytics property: what it stores
    calls,       \* method entries and remote Admin API calls, in order
    written      \* files written besides the CSV reports, in order

vars == <<campaigns, pc, qr_out, qr_again, args, i, fetches, responses,
          results, csv, report_date, printed, exit_code, env, command, remote,
          calls, written>>

(***************************************************************************)
(* Bounds of the model.                                                    *)
(***************************************************************************)
MaxParams == 3      \* query parameters ("&"-separated fields) of a target_url
MaxCampaigns == 2   \* campaigns in campaigns.yml
MaxDay == 3         \* calendar days 2024-01-01 .. 2024-01-MaxDay
MaxRows == 2        \* rows of one run_report response

(***************************************************************************)
(* Text helpers (str.split, str.join, concatenation).                      *)
(***************************************************************************)
RECURSIVE IndexOf(_, _, _)
\* first index >= from of atom a in s, 0 when absent (str.find + 1)
IndexOf(s, a, from) ==
    IF from > Len(s) THEN 0
    ELSE IF s[from] = a THEN from
    ELSE IndexOf(s, a, from + 1)

Before(s, k) == SubSeq(s, 1, k - 1)
After(s, k) == SubSeq(s, k + 1, Len(s))

RECURSIVE Split(_, _)
\* s.split(sep): every field between separators, empty fields included
Split(s, sep) ==
    LET k == IndexOf(s, sep, 1) IN
    IF k = 0 THEN <<s>>
    ELSE <<Before(s, k)>> \o Split(After(s, k), sep)

\* s.split(sep, 1): at most two fields, split at the first separator
Split1(s, sep) ==
    LET k == IndexOf(s, sep, 1) IN
    IF k = 0 THEN <<s>> ELSE <<Before(s, k), After(s, k)>>

RECURSIVE Join(_, _)
\* sep.join(parts)
Join(parts, sep) ==
    IF parts = <<>> THEN <<>>
    ELSE IF Len(parts) = 1 THEN parts[1]
    ELSE parts[1] \o <<sep>> \o Join(Tail(parts), sep)

(***************************************************************************)
(* Calendar dates.  Day d stands for 2024-01-d.  A date text is the two    *)
(* atoms <<year-month prefix, day digits>>; str(date) writes the padded    *)
(* ISO form, strptime('%Y-%m-%d') also reads the unpadded forms and raises *)
(* ValueError (BadDate) on anything else.                                  *)
(***************************************************************************)
DD == <<"01", "02", "03", "04", "05", "06", "07", "08", "09", "10",
        "11", "12", "13", "14", "15", "16", "17", "18", "19", "20",
        "21", "22", "23", "24", "25", "26", "27", "28", "29", "30", "31">>
D1 == <<"1", "2", "3", "4", "5", "6", "7", "8", "9", "10",
        "11", "12", "13", "14", "15", "16", "17", "18", "19", "20",
        "21", "22", "23", "24", "25", "26", "27", "28", "29", "30", "31">>

BadDate == 0

\* str(datetime.date): the ISO text of day d
DateStr(d) == <<"2024-01-", DD[d]>>

\* datetime.strptime(text, '%Y-%m-%d').date(): the day, or BadDate when it raises
Strptime(text) ==
    IF /\ Len(text) = 2
       /\ text[1] \in {"2024-01-", "2024-1-"}
       /\ \E d \in 1..31 : text[2] \in {DD[d], D1[d]}
    THEN CHOOSE d \in 1..31 : text[2] \in {DD[d], D1[d]}
    ELSE BadDate

(***************************************************************************)
(* hashlib.md5(s.encode()).hexdigest()[:8].  MD5 is library code; it is    *)
(* modelled by a fixed deterministic digest of the atoms of s that yields  *)
(* eight lowercase hexadecimal digits.                                     *)
(***************************************************************************)
HexDigits == <<"0", "1", "2", "3", "4", "5", "6", "7",
               "8", "9", "a", "b", "c", "d", "e", "f">>

AtomCode(a) ==
    CASE a = "_" -> 1 [] a = " " -> 2 [] a = "&" -> 3 [] a = "Expo" -> 4
      [] a = "Spring" -> 5 [] a = "Sale" -> 6 [] a = "2024-01-" -> 7
      [] a = "2024-1-" -> 8 [] a = "soon" -> 9 [] a = "1" -> 10
      [] a = "01" -> 11 [] a = "02" -> 12 [] a = "03" -> 13 [] a = "04" -> 14
      [] a = "05" -> 15 [] a = "06" -> 16 [] a = "07" -> 17 [] a = "08" -> 18
      [] OTHER -> 0

RECURSIVE Digest(_, _, _)
\* one digit of the digest: a position-weighted sum of the atom codes
Digest(s, j, acc) ==
    IF s = <<>> THEN acc % 16
    ELSE Digest(Tail(s), j, (acc * (2 * j + 1) + AtomCode(Head(s)) + j) % 4096)

Md5Hex8(s) == [j \in 1..8 |-> HexDigits[Digest(s, j, j) + 1]]

(***************************************************************************)
(* QRCodeGenerator (src/src/qr_generator.py).                              *)
(***************************************************************************)
\* the f-string f"{campaign['name']}_{campaign['start_date']}" of the QR generator
QR_unique_str(campaign) == campaign.name \o <<"_">> \o campaign.start_date

\* QRCodeGenerator.generate_campaign_id
QR_generate_campaign_id(campaign) == Md5Hex8(QR_unique_str(campaign))

\* urllib.parse.unquote, per atom
UnquoteAtom(a) ==
    CASE a = "%20" -> " " [] a = "%26" -> "&" [] a = "%3D" -> "="
      [] a = "%2B" -> "+" [] OTHER -> a

\* name.replace('+', ' ') followed by unquote(name)
UnquotePlus(s) ==
    [k \in 1..Len(s) |-> IF s[k] = "+" THEN " " ELSE UnquoteAtom(s[k])]

\* urllib.parse.quote_plus, per atom: unreserved atoms pass, the rest is escaped
QuoteAtom(a) ==
    CASE a = " " -> "+" [] a = "&" -> "%26" [] a = "=" -> "%3D"
      [] a = "+" -> "%2B" [] OTHER -> a

\* a variant of quote_plus that escapes nothing
QuotePlus_Raw(s) == s

QuotePlus(s) == [k \in 1..Len(s) |-> QuoteAtom(s[k])]

RECURSIVE ParseQslFields(_)
\* the loop of urllib.parse.parse_qsl over the "&"-separated fields
\* (keep_blank_values=False, strict_parsing=False): the (name, value) pairs
ParseQslFields(fields) ==
    IF fields = <<>> THEN <<>>
    ELSE LET name_value == Head(fields)
             nv == Split1(name_value, "=")
             rest == ParseQslFields(Tail(fields))
         IN IF name_value = <<>> THEN rest
            ELSE IF Len(nv) # 2 THEN rest
            ELSE IF Len(nv[2]) > 0
                 THEN <<[name |-> UnquotePlus(nv[1]),
                         value |-> UnquotePlus(nv[2])]>> \o rest
                 ELSE rest

\* urllib.parse.parse_qsl(qs)
ParseQsl(qs) == IF qs = <<>> THEN <<>> ELSE ParseQslFields(Split(qs, "&"))

\* An insertion-ordered dict of lists: a sequence of [key, values] entries.
DictKeys(d) == {d[k].key : k \in 1..Len(d)}
DictPos(d, key) == CHOOSE k \in 1..Len(d) : d[k].key = key
DictGet(d, key) == d[DictPos(d, key)].values

\* d[key] = values: an existing key keeps its position, a new key is appended
DictSet(d, key, values) ==
    IF key \in DictKeys(d)
    THEN [d EXCEPT ![DictPos(d, key)].values = values]
    ELSE Append(d, [key |-> key, values |-> values])

RECURSIVE ParseQsPairs(_, _)
\* the loop of urllib.parse.parse_qs: append to the list of a known name
ParseQsPairs(pairs, parsed_result) ==
    IF pairs = <<>> THEN parsed_result
    ELSE LET p == Head(pairs) IN
         ParseQsPairs(Tail(pairs),
            IF p.name \in DictKeys(parsed_result)
            THEN DictSet(parsed_result, p.name,
                         Append(DictGet(parsed_result, p.name), p.value))
            ELSE DictSet(parsed_result, p.name, <<p.value>>))

\* urllib.parse.parse_qs(qs)
ParseQs(qs) == ParseQsPairs(ParseQsl(qs), <<>>)

RECURSIVE UrlencodeItems(_)
\* the doseq loop of urllib.parse.urlencode: one "k=v" per value of each key
UrlencodeItems(d) ==
    IF d = <<>> THEN <<>>
    ELSE LET k == QuotePlus(Head(d).key)
             vs == Head(d).values
         IN [n \in 1..Len(vs) |-> k \o <<"=">> \o QuotePlus(vs[n])]
            \o UrlencodeItems(Tail(d))

\* urllib.parse.urlencode(query, doseq=True)
Urlencode(d) == Join(UrlencodeItems(d), "&")

\* urllib.parse.urlparse(url): the fragment is cut at the first "#", then the
\* query at the first "?"; scheme, netloc, path and params stay in `base`
Urlparse(url) ==
    LET f == Split1(url, "#")
        q == Split1(f[1], "?")
    IN [base |-> q[1],
        query |-> IF Len(q) = 2 THEN q[2] ELSE <<>>,
        fragment |-> IF Len(f) = 2 THEN f[2] ELSE <<>>]

\* urllib.parse.urlunparse: "?" and "#" are written only before a non-empty part
Urlunparse(base, query, fragment) ==
    base \o (IF query # <<>> THEN <<"?">> \o query ELSE <<>>)
         \o (IF fragment # <<>> THEN <<"#">> \o fragment ELSE <<>>)

\* the dict utm_params of build_utm_url, in insertion order
UtmParams(campaign, campaign_id) ==
    << [key |-> <<"utm_source">>, value |-> <<"offline">>],
       [key |-> <<"utm_medium">>, value |-> <<"print">>],
       [key |-> <<"utm_campaign">>, value |-> campaign_id],
       [key |-> <<"utm_content">>, value |-> campaign.location],
       [key |-> <<"utm_term">>, value |-> campaign.name] >>

RECURSIVE MergeUtm_Append(_, _)
\* a variant of the merge that appends to the values a key already has
MergeUtm_Append(query_params, utm) ==
    IF utm = <<>> THEN query_params
    ELSE MergeUtm_Append(
            IF Head(utm).key \in DictKeys(query_params)
            THEN DictSet(query_params, Head(utm).key,
                         Append(DictGet(query_params, Head(utm).key),
                                Head(utm).value))
            ELSE DictSet(query_params, Head(utm).key, <<Head(utm).value>>),
            Tail(utm))

RECURSIVE MergeUtm(_, _)
\* for key, value in utm_params.items(): query_params[key] = [value]
MergeUtm(query_params, utm) ==
    IF utm = <<>> THEN query_params
    ELSE MergeUtm(DictSet(query_params, Head(utm).key, <<Head(utm).value>>),
                  Tail(utm))

\* QRCodeGenerator.build_utm_url
build_utm_url(campaign) ==
    LET campaign_id == QR_generate_campaign_id(campaign)
        parsed == Urlparse(campaign.target_url)
        query_params == ParseQs(parsed.query)
        merged == MergeUtm(query_params, UtmParams(campaign, campaign_id))
        new_query == Urlencode(merged)
    IN [utm_url |-> Urlunparse(parsed.base, new_query, parsed.fragment),
        campaign_id |-> campaign_id]

(***************************************************************************)
(* ReportGenerator (src/src/report_generator.py).                          *)
(*                                                                         *)
(* Numbers.  A metric value is kept in hundredths (1.5 is 150), so sums,   *)
(* int() and round(x, 2) are computed exactly.  NaN is the value pandas    *)
(* gives an unparseable cell under errors='coerce'.                        *)
(***************************************************************************)
\* a variant of generate_campaign_id that hashes end_date
Report_generate_campaign_id_EndDate(campaign) ==
    Md5Hex8(campaign.name \o <<"_">> \o campaign.end_date)

\* ReportGenerator.generate_campaign_id
Report_generate_campaign_id(campaign) ==
    Md5Hex8(campaign.name \o <<"_">> \o campaign.start_date)

NaN == -1

\* pd.to_numeric(cell, errors='coerce') of one cell text, in hundredths
ToNumeric(cell) ==
    CASE cell = "0" -> 0 [] cell = "1" -> 100 [] cell = "2" -> 200
      [] cell = "3" -> 300 [] cell = "7" -> 700 [] cell = "10" -> 1000
      [] cell = "0.5" -> 50 [] cell = "1.5" -> 150 [] cell = "0.25" -> 25
      [] cell = "12.5" -> 1250
      [] OTHER -> NaN

\* .fillna(0)
Fillna0(x) == IF x = NaN THEN 0 ELSE x

\* a variant of int(x) that rounds to the nearest whole unit
IntTrunc_Rounded(x) == (x + 50) \div 100

\* int(x): truncation of a non-negative value to whole units
IntTrunc(x) == x \div 100

\* round(n / d, 2) in hundredths, n and d in the same unit, d > 0.  At an exact
\* decimal tie the binary float decides the direction: `up` is that outcome.
Round2(n, d, up) ==
    LET q == (n * 100) \div d
        r == (n * 100) % d
    IN IF 2 * r < d THEN q
       ELSE IF 2 * r > d THEN q + 1
       ELSE IF up THEN q + 1 ELSE q

dimension_headers == {"date", "sessionCampaignId", "sessionSource",
                      "sessionMedium", "customEvent:campaign_location",
                      "landingPage"}

numeric_columns == {"sessions", "totalUsers", "newUsers", "screenPageViews",
                    "averageSessionDuration", "bounceRate", "conversions"}

\* pd.DataFrame(): no columns, no rows
EmptyDataFrame == [columns |-> {}, rows |-> <<>>]

\* df.empty: some axis has length 0
DfEmpty(df) == df.columns = {} \/ df.rows = <<>>

NoFilter == <<"None">>

\* the RunReportRequest built by fetch_campaign_data
RunReportRequest(property_id, start_date, end_date, campaign_id) ==
    [property |-> <<"properties/">> \o property_id,
     start_date |-> start_date,
     end_date |-> end_date,
     dimensions |-> dimension_headers,
     metrics |-> numeric_columns,
     dimension_filter |-> IF campaign_id # <<>> /\ campaign_id # NoFilter
                          THEN campaign_id ELSE NoFilter]

\* a variant of the except branch that hands back a one-session frame
fetch_campaign_data_ErrorFrame(response) ==
    IF response.status = "error"
    THEN [columns |-> {"sessions"}, rows |-> <<[sessions |-> "1"]>>]
    ELSE IF response.rows = <<>> THEN EmptyDataFrame
    ELSE [columns |-> response.headers, rows |-> response.rows]

\* fetch_campaign_data after the call: a raised error gives an empty DataFrame,
\* a response gives one DataFrame row per response row, one column per header
fetch_campaign_data(response) ==
    IF response.status = "error" THEN EmptyDataFrame
    ELSE IF response.rows = <<>> THEN EmptyDataFrame
    ELSE [columns |-> response.headers, rows |-> response.rows]

RECURSIVE ColumnSum(_, _)
\* df[col] = pd.to_numeric(df[col], errors='coerce').fillna(0); df[col].sum()
ColumnSum(rows, col) ==
    IF rows = <<>> THEN 0
    ELSE Fillna0(ToNumeric(Head(rows)[col])) + ColumnSum(Tail(rows), col)

\* df[col].sum() if col in df.columns else 0
SumIfPresent(df, col) ==
    IF col \in df.columns THEN ColumnSum(df.rows, col) ELSE 0

\* round(df[col].mean(), 2) if col in df.columns else round(0, 2)
MeanIfPresent(df, col, up) ==
    IF col \in df.columns
    THEN Round2(ColumnSum(df.rows, col), Len(df.rows) * 100, up)
    ELSE 0

\* a variant of the empty-DataFrame record that charges the budget as cpa
EmptyMetrics_BudgetCpa(campaign) ==
    [campaign_name |-> campaign.name,
     campaign_id |-> Report_generate_campaign_id(campaign),
     location |-> campaign.location,
     budget |-> campaign.budget,
     total_sessions |-> 0,
     total_users |-> 0,
     new_users |-> 0,
     page_views |-> 0,
     avg_session_duration |-> 0,
     bounce_rate |-> 0,
     conversions |-> 0,
     cpa |-> campaign.budget * 100,
     cost_per_session |-> 0]

\* the record calculate_metrics returns for an empty DataFrame
EmptyMetrics(campaign) ==
    [campaign_name |-> campaign.name,
     campaign_id |-> Report_generate_campaign_id(campaign),
     location |-> campaign.location,
     budget |-> campaign.budget,
     total_sessions |-> 0,
     total_users |-> 0,
     new_users |-> 0,
     page_views |-> 0,
     avg_session_duration |-> 0,
     bounce_rate |-> 0,
     conversions |-> 0,
     cpa |-> 0,
     cost_per_session |-> 0]

\* a variant of the cost figures that cuts the quotient instead of rounding it
CostPer_Truncated(budget, count, up) ==
    IF count > 0 THEN (budget * 10000) \div count ELSE 0

\* round(budget / count if count > 0 else 0, 2), in hundredths; budget is in
\* whole units and count in hundredths
CostPer(budget, count, up) ==
    IF count > 0 THEN Round2(budget * 100, count, up) ELSE 0

\* ReportGenerator.calculate_metrics; cpa, cost_per_session, avg_session_duration
\* and bounce_rate are in hundredths, budget and the totals in whole units
calculate_metrics(df, campaign, up) ==
    IF DfEmpty(df)
    THEN EmptyMetrics(campaign)
    ELSE LET total_sessions == SumIfPresent(df, "sessions")
             total_users == SumIfPresent(df, "totalUsers")
             new_users == SumIfPresent(df, "newUsers")
             page_views == SumIfPresent(df, "screenPageViews")
             conversions == SumIfPresent(df, "conversions")
             budget == campaign.budget
             cpa == CostPer(budget, conversions, up)
             cost_per_session == CostPer(budget, total_sessions, up)
         IN [campaign_name |-> campaign.name,
             campaign_id |-> Report_generate_campaign_id(campaign),
             location |-> campaign.location,
             budget |-> budget,
             total_sessions |-> IntTrunc(total_sessions),
             total_users |-> IntTrunc(total_users),
             new_users |-> IntTrunc(new_users),
             page_views |-> IntTrunc(page_views),
             avg_session_duration |->
                 MeanIfPresent(df, "averageSessionDuration", up),
             bounce_rate |-> MeanIfPresent(df, "bounceRate", up),
             conversions |-> IntTrunc(conversions),
             cpa |-> cpa,
             cost_per_session |-> cost_per_session]

(***************************************************************************)
(* Inputs: campaigns.yml, the command line, and the remote responses.      *)
(***************************************************************************)
None == <<"None">>
\* the value of a key a campaign of campaigns.yml does not have: reading it
\* raises KeyError
Missing == <<"KeyError">>
Days == 1..MaxDay
Running == -1

Names == {<<"Expo">>, <<"Spring", "&", "Sale">>}
Locations == {<<"Tokyo", " ", "Station">>, <<>>}
Budgets == {0, 1000, 50000}
PropertyId == <<"123456789">>
BaseUrl == <<"https://example.com/lp">>

\* the "&"-separated fields a target_url query is made of
FieldSet ==
    { <<"ref", "=", "1">>, <<"ref", "=", "2">>, <<"ref", "=">>, <<"flag">>,
      <<"q", "=", "a", "+", "%26">>, <<"utm_term", "=", "old">> }

Queries ==
    UNION { {Join(fs, "&") : fs \in [1..n -> FieldSet]} : n \in 0..MaxParams }

Fragments == {<<>>, <<"top">>}

TargetUrls ==
    { BaseUrl \o (IF q = <<>> THEN <<>> ELSE <<"?">> \o q)
              \o (IF f = <<>> THEN <<>> ELSE <<"#">> \o f)
      : q \in Queries, f \in Fragments }

Campaign(name, location, start_date, end_date, budget, target_url) ==
    [name |-> name, location |-> location, start_date |-> start_date,
     end_date |-> end_date, budget |-> budget, target_url |-> target_url]

\* campaigns of the attribution-URL runs: every name, location and target_url
UrlCampaigns ==
    { Campaign(n, l, s, DateStr(MaxDay), 1000, u) :
        n \in Names, l \in Locations,
        s \in {DateStr(1), <<"2024-1-", "1">>}, u \in TargetUrls }

\* date texts of campaigns.yml: ISO dates and one text strptime rejects
DateTexts == {DateStr(d) : d \in Days} \cup {<<"soon">>}

\* campaign and report windows: every [s, e] with s <= e, and an inverted one
Windows == {w \in Days \X Days : w[1] <= w[2]} \cup {<<MaxDay, 1>>}

ReportCampaign(start_date, end_date) ==
    Campaign(<<"Expo">>, <<"Tokyo", " ", "Station">>, start_date, end_date,
             1000, BaseUrl)

\* campaigns of the report runs: every window, and an end_date strptime rejects
ReportCampaigns ==
    { ReportCampaign(DateStr(w[1]), DateStr(w[2])) : w \in Windows }
    \cup { ReportCampaign(DateStr(1), <<"soon">>) }

CampaignLists(S) == UNION { [1..n -> S] : n \in 0..MaxCampaigns }

DailyArgs ==
    { [mode |-> "daily", date |-> d, start_date |-> None, end_date |-> None] :
        d \in DateTexts \cup {None} }

PeriodArg(start_date, end_date) ==
    [mode |-> "period", date |-> None, start_date |-> start_date,
     end_date |-> end_date]

PeriodArgs ==
    { PeriodArg(DateStr(w[1]), DateStr(w[2])) : w \in Windows }
    \cup { PeriodArg(None, DateStr(1)), PeriodArg(DateStr(1), <<"soon">>) }

\* rows of a run_report response: the metric cells are texts
ResponseRow(sessions, totalUsers, newUsers, screenPageViews, averageSessionDuration, bounceRate, conversions) ==
    [h \in dimension_headers \cup numeric_columns |->
        CASE h = "sessions" -> sessions
          [] h = "totalUsers" -> totalUsers
          [] h = "newUsers" -> newUsers
          [] h = "screenPageViews" -> screenPageViews
          [] h = "averageSessionDuration" -> averageSessionDuration
          [] h = "bounceRate" -> bounceRate
          [] h = "conversions" -> conversions
          [] OTHER -> "dim"]

RowSet ==
    { ResponseRow("10", "7", "3", "2", "12.5", "0.5", "1"),
      ResponseRow("3", "2", "1", "7", "1.5", "0.25", "1.5"),
      ResponseRow("0", "0", "0", "0", "0", "0", "0"),
      ResponseRow("(not set)", "abc", "", "7", "x", "0.5", "0.5"),
      ResponseRow("1", "1", "1", "1", "1", "1", "0"),
      ResponseRow("0", "3", "2", "10", "0.5", "1", "2") }

ErrorResponse == [status |-> "error", headers |-> {}, rows |-> <<>>]

\* a response whose header list is `headers`
OkResponse(headers, rows) ==
    [status |-> "ok", headers |-> headers,
     rows |-> [k \in 1..Len(rows) |-> [h \in headers |-> rows[k][h]]]]

AllHeaders == dimension_headers \cup numeric_columns

\* responses of the aggregation runs: up to MaxRows rows, all headers or one
\* metric header missing; no rows; an error
MetricResponses ==
    { OkResponse(hs, rows) :
        hs \in {AllHeaders} \cup {AllHeaders \ {c} : c \in numeric_columns},
        rows \in UNION { [1..n -> RowSet] : n \in 1..MaxRows } }
    \cup {OkResponse(AllHeaders, <<>>), ErrorResponse}

\* responses of the report runs: an error, no rows, one row
ReportResponses ==
    { ErrorResponse, OkResponse(AllHeaders, <<>>),
      OkResponse(AllHeaders,
                 <<ResponseRow("10", "7", "3", "2", "12.5", "0.5", "1.5")>>) }

(***************************************************************************)
(* The files a run reads.  A file is "ok", "missing" or "unparseable";     *)
(* property_id is what config.get('property_id') gives: a text, None when  *)
(* the key is absent, the empty text when it is empty.                     *)
(***************************************************************************)
FileStates == {"ok", "missing", "unparseable"}

PropertyIds == {PropertyId, None, <<>>}

\* the service-account key file: present and valid, absent, or rejected
CredentialStates == {"ok", "missing", "invalid"}

\* a variant of the test that takes the empty string for an identifier
NoPropertyId_NoneOnly(property_id) == property_id = None

\* `if not self.property_id`
NoPropertyId(property_id) == property_id = None \/ property_id = <<>>

Env(config, property_id, campaigns_file, campaign_list, conversion_events, credentials, denied) ==
    [config |-> config, property_id |-> property_id,
     campaigns_file |-> campaigns_file, campaigns |-> campaign_list,
     conversion_events |-> conversion_events,
     credentials |-> credentials, denied |-> denied]

\* every file present and well-formed
FilesOk(e) ==
    /\ e.config = "ok" /\ ~NoPropertyId(e.property_id)
    /\ e.campaigns_file = "ok" /\ e.credentials = "ok"

\* the environment of a run that reads no file
NoFiles == Env("ok", PropertyId, "ok", <<>>, None, "ok", FALSE)

\* the retention settings of a new property
DefaultRetention ==
    [event_data_retention |-> "TWO_MONTHS",
     reset_user_data_on_new_activity |-> FALSE]

\* a property that stores nothing: `dimensions` are the parameter names of
\* this program's custom dimensions, `others` counts the other custom
\* dimensions, `events` lists the conversion events in creation order
NoRemote ==
    [dimensions |-> {}, others |-> 0, events |-> <<>>, streams |-> <<>>,
     retention |-> DefaultRetention, faulted |-> FALSE]

(***************************************************************************)
(* Attribution-URL runs: build_utm_url on one campaign, build_utm_url on   *)
(* the same campaign with the URL just built as its target_url, and the    *)
(* report's request and row for that campaign.                             *)
(***************************************************************************)
\* a run started from Python, not through main.py
NoCommand == "none"

Idle ==
    /\ qr_out = <<>> /\ qr_again = <<>>
    /\ i = 1 /\ fetches = <<>> /\ responses = <<>> /\ results = <<>>
    /\ csv = <<>> /\ report_date = BadDate /\ printed = <<>>
    /\ exit_code = Running /\ command = NoCommand
    /\ remote = NoRemote /\ calls = <<>> /\ written = <<>>

NoArgs == [mode |-> "none", date |-> None, start_date |-> None, end_date |-> None]

InitUrl ==
    /\ campaigns \in {<<c>> : c \in UrlCampaigns}
    /\ args = NoArgs /\ env = NoFiles
    /\ pc = "url_build"
    /\ Idle

\* utm_url, campaign_id = self.build_utm_url(campaign)
Url_Build ==
    /\ pc = "url_build"
    /\ qr_out' = Append(qr_out, build_utm_url(campaigns[1]))
    /\ pc' = "url_rebuild"
    /\ UNCHANGED <<campaigns, qr_again, args, i, fetches, responses, results,
                   csv, report_date, printed, exit_code>>
    /\ UNCHANGED <<env, command, remote, calls, written>>

\* build_utm_url again, target_url being the utm_url of the first call
Url_Rebuild ==
    /\ pc = "url_rebuild"
    /\ qr_again' = Append(qr_again,
           build_utm_url([campaigns[1] EXCEPT !.target_url = qr_out[1].utm_url]))
    /\ pc' = "url_report"
    /\ UNCHANGED <<campaigns, qr_out, args, i, fetches, responses, results,
                   csv, report_date, printed, exit_code>>
    /\ UNCHANGED <<env, command, remote, calls, written>>

\* the report side for the same campaign on its first day: the request of
\* fetch_campaign_data and the row of calculate_metrics
Url_Report ==
    /\ pc = "url_report"
    /\ \E response \in ReportResponses, up \in BOOLEAN :
         LET campaign == campaigns[1]
             day == DateStr(Strptime(campaign.start_date))
             campaign_id == Report_generate_campaign_id(campaign)
         IN /\ fetches' = Append(fetches,
                   RunReportRequest(PropertyId, day, day, campaign_id))
            /\ responses' = Append(responses, response)
            /\ results' = Append(results,
                   calculate_metrics(fetch_campaign_data(response), campaign, up))
    /\ pc' = "url_done"
    /\ UNCHANGED <<campaigns, qr_out, qr_again, args, i, csv, report_date,
                   printed, exit_code>>
    /\ UNCHANGED <<env, command, remote, calls, written>>

NextUrl == Url_Build \/ Url_Rebuild \/ Url_Report

SpecUrl == InitUrl /\ [][NextUrl]_vars

(***************************************************************************)
(* Aggregation runs: calculate_metrics on one fetched DataFrame.           *)
(***************************************************************************)
MetricCampaigns ==
    { Campaign(<<"Expo">>, <<"Tokyo", " ", "Station">>, DateStr(1), DateStr(1),
               b, BaseUrl) : b \in Budgets }

InitMetrics ==
    /\ campaigns \in {<<c>> : c \in MetricCampaigns}
    /\ args = NoArgs /\ env = NoFiles
    /\ pc = "metrics_fetch"
    /\ Idle

\* df = self.fetch_campaign_data(...): the remote answers or fails
Metrics_Fetch ==
    /\ pc = "metrics_fetch"
    /\ \E response \in MetricResponses :
         LET campaign == campaigns[1]
             campaign_id == Report_generate_campaign_id(campaign)
         IN /\ fetches' = Append(fetches,
                   RunReportRequest(PropertyId, campaign.start_date,
                                    campaign.end_date, campaign_id))
            /\ responses' = Append(responses, response)
    /\ pc' = "metrics_calc"
    /\ UNCHANGED <<campaigns, qr_out, qr_again, args, i, results, csv,
                   report_date, printed, exit_code>>
    /\ UNCHANGED <<env, command, remote, calls, written>>

\* metrics = self.calculate_metrics(df, campaign)
Metrics_Calc ==
    /\ pc = "metrics_calc"
    /\ \E up \in BOOLEAN :
         results' = Append(results,
             calculate_metrics(fetch_campaign_data(responses[1]),
                               campaigns[1], up))
    /\ pc' = "metrics_done"
    /\ UNCHANGED <<campaigns, qr_out, qr_again, args, i, fetches, responses,
                   csv, report_date, printed, exit_code>>
    /\ UNCHANGED <<env, command, remote, calls, written>>

NextMetrics == Metrics_Fetch \/ Metrics_Calc

SpecMetrics == InitMetrics /\ [][NextMetrics]_vars

(***************************************************************************)
(* Report runs: ReportGenerator.run in daily and in period mode.  One      *)
(* action per loop iteration; an exception that nothing in the class       *)
(* catches ends the process with status 1.                                 *)
(***************************************************************************)
\* one entry of `calls`: a method entry or a remote call, with how it ended
Call(op, arg, outcome) == [op |-> op, arg |-> arg, outcome |-> outcome]

\* one printed line that carries no name and no number
Line(kind) == [kind |-> kind, name |-> <<>>, total |-> 0]

\* what a report run finds on disk: well-formed files holding any campaign
\* list, or files of which at least one is missing, unparseable or incomplete
ReportEnvs ==
    { Env("ok", PropertyId, "ok", cs, None, "ok", FALSE) :
        cs \in CampaignLists(ReportCampaigns) }
    \cup { e \in { Env(c, p, f, <<ReportCampaign(DateStr(1), DateStr(MaxDay))>>,
                       None, k, FALSE) :
                     c \in FileStates, p \in PropertyIds, f \in FileStates,
                     k \in CredentialStates } :
             ~FilesOk(e) /\ (e.config # "ok" => e.property_id = PropertyId) }

InitReport ==
    /\ env \in ReportEnvs
    /\ campaigns = <<>>
    /\ args \in DailyArgs \cup PeriodArgs
    /\ pc = "load_config"
    /\ Idle

\* ReportGenerator.load_config: "ok", "exit" for a handled error that calls
\* sys.exit(1), "raise" for an exception the method does not catch
Report_LoadConfigOutcome(e) ==
    CASE e.config = "missing" -> "exit"
      [] e.config = "unparseable" -> "raise"
      [] NoPropertyId(e.property_id) -> "exit"
      [] e.campaigns_file = "missing" -> "exit"
      [] e.campaigns_file = "unparseable" -> "raise"
      [] OTHER -> "ok"

\* what a startup step prints for its outcome
StartupPrints(outcome, kind) ==
    IF outcome = "exit" THEN <<Line(kind)>> ELSE <<>>

\* self.load_config() in run
Report_LoadConfig ==
    /\ pc = "load_config"
    /\ LET outcome == Report_LoadConfigOutcome(env)
       IN /\ calls' = Append(calls, Call("load_config", <<>>, outcome))
          /\ printed' = printed \o StartupPrints(outcome, "config_error")
          /\ IF outcome = "ok"
             THEN /\ campaigns' = env.campaigns
                  /\ pc' = "authenticate"
                  /\ UNCHANGED exit_code
             ELSE /\ pc' = "done" /\ exit_code' = 1
                  /\ UNCHANGED campaigns
    /\ UNCHANGED <<qr_out, qr_again, args, i, fetches, responses, results,
                   csv, report_date, env, command, remote, written>>

\* self.authenticate() in run: any failure to load the key file is caught
Report_Authenticate ==
    /\ pc = "authenticate"
    /\ LET outcome == IF env.credentials = "ok" THEN "ok" ELSE "exit"
       IN /\ calls' = Append(calls, Call("authenticate", <<>>, outcome))
          /\ IF outcome = "ok"
             THEN /\ printed' = Append(printed, Line("auth_ok"))
                  /\ pc' = "run"
                  /\ UNCHANGED exit_code
             ELSE /\ printed' = Append(printed, Line("auth_error"))
                  /\ pc' = "done" /\ exit_code' = 1
    /\ UNCHANGED <<campaigns, qr_out, qr_again, args, i, fetches, responses,
                   results, csv, report_date, env, command, remote, written>>

\* a variant in which calculate_metrics reads no key of the campaign
MetricsRaise_Never(campaign) == FALSE

\* calculate_metrics reads campaign['location'] whatever the DataFrame holds
MetricsRaise(campaign) == campaign.location = Missing

\* a variant of the daily window test that leaves out the last day
InCampaignPeriod_EndExclusive(start_date, day, end_date) ==
    start_date <= day /\ day < end_date

\* if not (start_date <= report_date <= end_date): continue
InCampaignPeriod(start_date, day, end_date) ==
    start_date <= day /\ day <= end_date

\* a variant of the overlap test that skips a one-day intersection
NoOverlap_OneDay(actual_start, actual_end) == actual_start >= actual_end

\* if actual_start > actual_end: continue
NoOverlap(actual_start, actual_end) == actual_start > actual_end

\* a variant that saves the report whether or not there are results
HasResults_Always(rows) == TRUE

\* `if results:` before the report is saved
HasResults(rows) == rows # <<>>

\* a variant of the CSV writer that leaves out the last result
CsvFile_DropLast(path, rows) ==
    [path |-> path, rows |-> SubSeq(rows, 1, Len(rows) - 1)]

\* pd.DataFrame(results).to_csv(csv_path, index=False): one line per result,
\* in list order
CsvFile(path, rows) == [path |-> path, rows |-> rows]

\* a variant of the except branch that prints nothing
FetchWarning_Silent(response) == <<>>

\* what the except branch of fetch_campaign_data prints
FetchWarning(response) ==
    IF response.status = "error"
    THEN <<[kind |-> "fetch_warning", name |-> <<>>, total |-> 0]>>
    ELSE <<>>

\* run(mode='daily') up to the loop of generate_daily_report: report_date is
\* yesterday when no date is given, else strptime(date), which may raise
Report_RunDaily ==
    /\ pc = "run" /\ args.mode = "daily"
    /\ \/ /\ args.date = None
          /\ report_date' \in Days
          /\ pc' = "daily_loop"
          /\ UNCHANGED exit_code
       \/ /\ args.date # None /\ Strptime(args.date) # BadDate
          /\ report_date' = Strptime(args.date)
          /\ pc' = "daily_loop"
          /\ UNCHANGED exit_code
       \/ /\ args.date # None /\ Strptime(args.date) = BadDate
          /\ pc' = "done" /\ exit_code' = 1
          /\ UNCHANGED report_date
    /\ UNCHANGED <<campaigns, qr_out, qr_again, args, i, fetches, responses,
                   results, csv, printed>>
    /\ UNCHANGED <<env, command, remote, calls, written>>

\* one iteration of `for campaign in self.campaigns` in generate_daily_report
Report_DailyStep ==
    /\ pc = "daily_loop" /\ i <= Len(campaigns)
    /\ LET campaign == campaigns[i]
           start_date == Strptime(campaign.start_date)
           end_date == Strptime(campaign.end_date)
       IN \/ /\ (start_date = BadDate \/ end_date = BadDate)
             /\ pc' = "done" /\ exit_code' = 1
             /\ UNCHANGED <<i, fetches, responses, results, printed>>
          \/ /\ start_date # BadDate /\ end_date # BadDate
             /\ ~InCampaignPeriod(start_date, report_date, end_date)
             /\ i' = i + 1
             /\ UNCHANGED <<pc, exit_code, fetches, responses, results, printed>>
          \/ /\ start_date # BadDate /\ end_date # BadDate
             /\ InCampaignPeriod(start_date, report_date, end_date)
             /\ MetricsRaise(campaign)
             /\ \E response \in ReportResponses :
                  LET campaign_id == Report_generate_campaign_id(campaign)
                  IN /\ fetches' = Append(fetches,
                            RunReportRequest(PropertyId, DateStr(report_date),
                                             DateStr(report_date), campaign_id))
                     /\ responses' = Append(responses, response)
                     /\ printed' = printed
                            \o <<[kind |-> "processing", name |-> campaign.name,
                                  total |-> 0]>>
                            \o FetchWarning(response)
             /\ pc' = "done" /\ exit_code' = 1
             /\ UNCHANGED <<i, results>>
          \/ /\ start_date # BadDate /\ end_date # BadDate
             /\ InCampaignPeriod(start_date, report_date, end_date)
             /\ ~MetricsRaise(campaign)
             /\ \E response \in ReportResponses, up \in BOOLEAN :
                  LET campaign_id == Report_generate_campaign_id(campaign)
                      df == fetch_campaign_data(response)
                      metrics == calculate_metrics(df, campaign, up)
                  IN /\ fetches' = Append(fetches,
                            RunReportRequest(PropertyId, DateStr(report_date),
                                             DateStr(report_date), campaign_id))
                     /\ responses' = Append(responses, response)
                     /\ results' = Append(results,
                            [label |-> DateStr(report_date), index |-> i,
                             metrics |-> metrics])
                     /\ printed' = printed
                            \o <<[kind |-> "processing", name |-> campaign.name,
                                  total |-> 0]>>
                            \o FetchWarning(response)
             /\ i' = i + 1
             /\ UNCHANGED <<pc, exit_code>>
    /\ UNCHANGED <<campaigns, qr_out, qr_again, args, csv, report_date>>
    /\ UNCHANGED <<env, command, remote, calls, written>>

RECURSIVE SumField(_, _)
\* sum(r[field] for r in results)
SumField(rows, field) ==
    IF rows = <<>> THEN 0
    ELSE Head(rows).metrics[field] + SumField(Tail(rows), field)

\* what save_report prints: the CSV path, a summary per result, the totals
SaveReportPrints(rows) ==
    <<[kind |-> "csv_saved", name |-> <<>>, total |-> 0]>>
    \o [k \in 1..Len(rows) |->
          [kind |-> "summary", name |-> rows[k].metrics.campaign_name,
           total |-> rows[k].metrics.total_sessions]]
    \o <<[kind |-> "total_budget", name |-> <<>>,
          total |-> SumField(rows, "budget")],
         [kind |-> "total_sessions", name |-> <<>>,
          total |-> SumField(rows, "total_sessions")],
         [kind |-> "total_conversions", name |-> <<>>,
          total |-> SumField(rows, "conversions")]>>
    \o (IF SumField(rows, "conversions") > 0
        THEN <<[kind |-> "average_cpa", name |-> <<>>,
                total |-> SumField(rows, "budget")
                          \div SumField(rows, "conversions")]>>
        ELSE <<>>)

\* the end of generate_daily_report: save_report when there are results
Report_DailyFinish ==
    /\ pc = "daily_loop" /\ i > Len(campaigns)
    /\ IF HasResults(results)
       THEN /\ csv' = Append(csv,
                   CsvFile(<<"output/reports/daily_report_">>
                             \o DateStr(report_date) \o <<".csv">>,
                           results))
            /\ printed' = printed \o SaveReportPrints(results)
       ELSE /\ csv' = csv
            /\ printed' = Append(printed,
                   [kind |-> "no_campaign_data", name |-> <<>>, total |-> 0])
    /\ pc' = "done" /\ exit_code' = 0
    /\ UNCHANGED <<campaigns, qr_out, qr_again, args, i, fetches, responses,
                   results, report_date>>
    /\ UNCHANGED <<env, command, remote, calls, written>>

\* run(mode='period') up to the loop of generate_period_report
Report_RunPeriod ==
    /\ pc = "run" /\ args.mode = "period"
    /\ \/ /\ (args.start_date = None \/ args.end_date = None)
          /\ pc' = "done" /\ exit_code' = 1
       \/ /\ args.start_date # None /\ args.end_date # None
          /\ pc' = "period_loop"
          /\ UNCHANGED exit_code
    /\ UNCHANGED <<campaigns, qr_out, qr_again, args, i, fetches, responses,
                   results, csv, report_date, printed>>
    /\ UNCHANGED <<env, command, remote, calls, written>>

Max(a, b) == IF a >= b THEN a ELSE b
Min(a, b) == IF a <= b THEN a ELSE b

\* one iteration of `for campaign in self.campaigns` in generate_period_report
Report_PeriodStep ==
    /\ pc = "period_loop" /\ i <= Len(campaigns)
    /\ LET campaign == campaigns[i]
           campaign_start == Strptime(campaign.start_date)
           campaign_end == Strptime(campaign.end_date)
           report_start == Strptime(args.start_date)
           report_end == Strptime(args.end_date)
           actual_start == Max(campaign_start, report_start)
           actual_end == Min(campaign_end, report_end)
           parsed == BadDate \notin {campaign_start, campaign_end,
                                     report_start, report_end}
           processing == <<[kind |-> "processing", name |-> campaign.name,
                            total |-> 0]>>
       IN \/ /\ ~parsed
             /\ pc' = "done" /\ exit_code' = 1
             /\ printed' = printed \o processing
             /\ UNCHANGED <<i, fetches, responses, results>>
          \/ /\ parsed /\ NoOverlap(actual_start, actual_end)
             /\ i' = i + 1
             /\ printed' = printed \o processing
             /\ UNCHANGED <<pc, exit_code, fetches, responses, results>>
          \/ /\ parsed /\ ~NoOverlap(actual_start, actual_end)
             /\ MetricsRaise(campaign)
             /\ \E response \in ReportResponses :
                  LET campaign_id == Report_generate_campaign_id(campaign)
                  IN /\ fetches' = Append(fetches,
                            RunReportRequest(PropertyId, DateStr(actual_start),
                                             DateStr(actual_end), campaign_id))
                     /\ responses' = Append(responses, response)
                     /\ printed' = printed \o processing \o FetchWarning(response)
             /\ pc' = "done" /\ exit_code' = 1
             /\ UNCHANGED <<i, results>>
          \/ /\ parsed /\ ~NoOverlap(actual_start, actual_end)
             /\ ~MetricsRaise(campaign)
             /\ \E response \in ReportResponses, up \in BOOLEAN :
                  LET campaign_id == Report_generate_campaign_id(campaign)
                      df == fetch_campaign_data(response)
                      metrics == calculate_metrics(df, campaign, up)
                  IN /\ fetches' = Append(fetches,
                            RunReportRequest(PropertyId, DateStr(actual_start),
                                             DateStr(actual_end), campaign_id))
                     /\ responses' = Append(responses, response)
                     /\ results' = Append(results,
                            [label |-> DateStr(actual_start) \o <<" - ">>
                                       \o DateStr(actual_end),
                             index |-> i, metrics |-> metrics])
                     /\ printed' = printed \o processing \o FetchWarning(response)
             /\ i' = i + 1
             /\ UNCHANGED <<pc, exit_code>>
    /\ UNCHANGED <<campaigns, qr_out, qr_again, args, csv, report_date>>
    /\ UNCHANGED <<env, command, remote, calls, written>>

\* the end of generate_period_report: the CSV is written when there are results
Report_PeriodFinish ==
    /\ pc = "period_loop" /\ i > Len(campaigns)
    /\ IF HasResults(results)
       THEN /\ csv' = Append(csv,
                   CsvFile(<<"output/reports/period_report_">>
                             \o args.start_date \o <<"_to_">> \o args.end_date
                             \o <<".csv">>,
                           results))
            /\ printed' = Append(printed,
                   [kind |-> "csv_saved", name |-> <<>>, total |-> 0])
       ELSE UNCHANGED <<csv, printed>>
    /\ pc' = "done" /\ exit_code' = 0
    /\ UNCHANGED <<campaigns, qr_out, qr_again, args, i, fetches, responses,
                   results, report_date>>
    /\ UNCHANGED <<env, command, remote, calls, written>>

NextReport ==
    \/ Report_LoadConfig \/ Report_Authenticate
    \/ Report_RunDaily \/ Report_DailyStep \/ Report_DailyFinish
    \/ Report_RunPeriod \/ Report_PeriodStep \/ Report_PeriodFinish

SpecReport == InitReport /\ [][NextReport]_vars

(***************************************************************************)
(* Report runs over campaign lists with entries that make the loop body    *)
(* raise: a start_date or an end_date strptime rejects, no `location` key. *)
(***************************************************************************)
CrashCampaigns ==
    { ReportCampaign(DateStr(1), DateStr(MaxDay)),
      ReportCampaign(DateStr(MaxDay), DateStr(MaxDay)),
      ReportCampaign(<<"soon">>, DateStr(MaxDay)),
      ReportCampaign(DateStr(1), <<"soon">>),
      Campaign(<<"Expo">>, Missing, DateStr(1), DateStr(MaxDay), 1000, BaseUrl) }

CrashArgs ==
    { [mode |-> "daily", date |-> DateStr(1), start_date |-> None,
       end_date |-> None],
      PeriodArg(DateStr(1), DateStr(MaxDay)) }

InitCrash ==
    /\ env \in { Env("ok", PropertyId, "ok", cs, None, "ok", FALSE) :
                   cs \in CampaignLists(CrashCampaigns) }
    /\ campaigns = <<>>
    /\ args \in CrashArgs
    /\ pc = "load_config"
    /\ Idle

SpecCrash == InitCrash /\ [][NextReport]_vars

(***************************************************************************)
(* Platform setup: GA4Setup (src/src/ga4_setup.py) against one property.   *)
(* The property stores what is created on it and changes through this      *)
(* program only.  A remote call fails with PermissionDenied when the       *)
(* caller lacks the editor role (every mutating call), with                *)
(* ResourceExhausted at the dimension limit, with AlreadyExists for a      *)
(* second dimension of one parameter_name, and with ServiceUnavailable for *)
(* a transient failure; remote.faulted records that the transient failure  *)
(* has happened: each property has at most one.                            *)
(***************************************************************************)
MaxStreams == 2     \* data streams of the property

DimensionLimit == 50

\* a variant of the dimension list that names utm_content twice and utm_term never
Dimensions_NoTerm ==
    << "campaign_id", "campaign_name", "campaign_location", "print_medium",
       "utm_source", "utm_medium", "utm_campaign", "utm_content",
       "utm_content" >>

\* setup_custom_dimensions: the parameter_name of each entry of `dimensions`
Dimensions ==
    << "campaign_id", "campaign_name", "campaign_location", "print_medium",
       "utm_source", "utm_medium", "utm_campaign", "utm_content", "utm_term" >>

\* the seven flags setup_enhanced_measurement sets
EnhancedFlags ==
    { "stream_enabled", "scrolls_enabled", "outbound_clicks_enabled",
      "site_search_enabled", "video_engagement_enabled",
      "file_downloads_enabled", "form_interactions_enabled" }

\* update_mask={"paths": [...]} of update_enhanced_measurement_settings
EnhancedMask ==
    { "stream_enabled", "scrolls_enabled", "outbound_clicks_enabled",
      "site_search_enabled", "video_engagement_enabled",
      "file_downloads_enabled", "form_interactions_enabled" }

\* the two events setup_conversion_events falls back to
DefaultConversionEvents == << "qr_code_scan", "campaign_click" >>

\* the remote calls an operation can lose to the transient failure: none (0)
\* or the k-th of its n calls, when the failure has not happened yet
Faults(rem, n) == {0} \cup (IF rem.faulted THEN {} ELSE 1..n)

\* the property after an operation in which the transient failure happened
\* or did not
Faulted(rem, happened) == [rem EXCEPT !.faulted = @ \/ happened]

\* what create_custom_dimension returns: None, the listed dict, the response
Returned(kind, parameter_name) ==
    [kind |-> kind, parameter_name |-> parameter_name]

\* how the property answers client.create_custom_dimension
CreateDimensionOutcome(rem, parameter_name, denied, fault) ==
    CASE denied -> "PermissionDenied"
      [] parameter_name \in rem.dimensions -> "AlreadyExists"
      [] Cardinality(rem.dimensions) + rem.others >= DimensionLimit
           -> "ResourceExhausted"
      [] fault -> "ServiceUnavailable"
      [] OTHER -> "ok"

\* a variant of get_custom_dimensions that lets the listing's failure out
get_custom_dimensions_Stale(rem, fault) == rem.dimensions

\* get_custom_dimensions: the listing, [] when the remote call fails
get_custom_dimensions(rem, fault) == IF fault THEN {} ELSE rem.dimensions

\* a variant of the existence test that never finds the dimension
DimensionListed_Never(existing, parameter_name) == FALSE

\* `for dim in existing: if dim['parameter_name'] == parameter_name`
DimensionListed(existing, parameter_name) == parameter_name \in existing

\* what create_custom_dimension prints for the outcome of the remote create
CreateDimensionPrints(outcome) ==
    CASE outcome = "ok" -> <<Line("created")>>
      [] outcome = "PermissionDenied" -> <<Line("permission_error")>>
      [] outcome = "ResourceExhausted" -> <<Line("limit_error")>>
      [] OTHER -> <<Line("create_error")>>

\* GA4Setup.create_custom_dimension(parameter_name, ...) with fault f: 1 loses
\* the listing, 2 the create.  The result is the property afterwards, the
\* remote calls made, the lines printed and the value returned.
create_custom_dimension(rem, parameter_name, denied, f) ==
    LET existing == get_custom_dimensions(rem, f = 1)
        list_call == Call("client.list_custom_dimensions", existing,
                          IF f = 1 THEN "ServiceUnavailable" ELSE "ok")
        list_prints == IF f = 1 THEN <<Line("list_warning")>> ELSE <<>>
        outcome == CreateDimensionOutcome(rem, parameter_name, denied, f = 2)
    IN IF DimensionListed(existing, parameter_name)
       THEN [remote |-> Faulted(rem, f = 1),
             calls |-> <<list_call>>,
             printed |-> list_prints \o <<Line("skipped")>>,
             ret |-> Returned("existing", parameter_name)]
       ELSE [remote |-> IF outcome = "ok"
                        THEN [Faulted(rem, f = 1) EXCEPT
                                !.dimensions = @ \cup {parameter_name}]
                        ELSE Faulted(rem, f = 1
                                          \/ outcome = "ServiceUnavailable"),
             calls |-> <<list_call,
                         Call("client.create_custom_dimension",
                              parameter_name, outcome)>>,
             printed |-> list_prints \o CreateDimensionPrints(outcome),
             ret |-> IF outcome = "ok"
                     THEN Returned("response", parameter_name)
                     ELSE Returned("None", parameter_name)]

\* the elements of a sequence
Range(seq) == {seq[k] : k \in 1..Len(seq)}

\* a variant of the existence test that never finds the event
EventListed_Never(existing_conversions, event_name) == FALSE

\* `if event_name in existing_conversions`
EventListed(existing_conversions, event_name) ==
    event_name \in Range(existing_conversions)

\* GA4Setup.create_conversion_event(event_name) with fault f: 1 loses the
\* listing (the exception skips the rest of the method), 2 the create
create_conversion_event(rem, event_name, denied, f) ==
    LET list_call == Call("client.list_conversion_events", rem.events,
                          IF f = 1 THEN "ServiceUnavailable" ELSE "ok")
        outcome == CASE denied -> "PermissionDenied"
                     [] f = 2 -> "ServiceUnavailable"
                     [] OTHER -> "ok"
        create_call == Call("client.create_conversion_event", event_name, outcome)
    IN CASE f = 1 ->
              [remote |-> Faulted(rem, TRUE), calls |-> <<list_call>>,
               printed |-> <<Line("create_error")>>]
         [] f # 1 /\ EventListed(rem.events, event_name) ->
              [remote |-> rem, calls |-> <<list_call>>,
               printed |-> <<Line("skipped")>>]
         [] OTHER ->
              [remote |-> IF outcome = "ok"
                          THEN [rem EXCEPT !.events = Append(@, event_name)]
                          ELSE Faulted(rem, outcome = "ServiceUnavailable"),
               calls |-> <<list_call, create_call>>,
               printed |-> IF outcome = "ok" THEN <<Line("created")>>
                           ELSE IF outcome = "PermissionDenied"
                           THEN <<Line("permission_error")>>
                           ELSE <<Line("create_error")>>]

\* a variant that sets up the two defaults whatever campaigns.yml lists
ConversionEvents_AlwaysDefault(e) == DefaultConversionEvents

\* setup_conversion_events: the event names read from campaigns.yml, the two
\* defaults when the file cannot be read or defines none
ConversionEvents(e) ==
    IF e.campaigns_file # "ok" THEN DefaultConversionEvents
    ELSE IF e.conversion_events = None \/ e.conversion_events = <<>>
         THEN DefaultConversionEvents
         ELSE e.conversion_events

\* a variant of the stream test that takes every stream
IsWebStream_Any(stream) == TRUE

\* `if stream.type_ == DataStream.DataStreamType.WEB_DATA_STREAM`
IsWebStream(stream) == stream.type = "WEB_DATA_STREAM"

\* the settings after a partial update: the masked fields come from `sent`
ApplyMask(stored, sent, mask) == (stored \ mask) \cup (sent \cap mask)

\* the body of the stream loop of setup_enhanced_measurement for stream k,
\* with fault f: 1 loses get_enhanced_measurement_settings, 2 the update
enhance_stream(rem, k, denied, f) ==
    LET stream == rem.streams[k]
        get_call == Call("client.get_enhanced_measurement_settings", k,
                         IF f = 1 THEN "ServiceUnavailable" ELSE "ok")
        sent == stream.enhanced \cup EnhancedFlags
        outcome == CASE denied -> "PermissionDenied"
                     [] f = 2 -> "ServiceUnavailable"
                     [] OTHER -> "ok"
        update_call == Call("client.update_enhanced_measurement_settings",
                            [stream |-> k, enabled |-> sent,
                             update_mask |-> EnhancedMask],
                            outcome)
    IN CASE ~IsWebStream(stream) ->
              [remote |-> rem, calls |-> <<>>, printed |-> <<>>]
         [] IsWebStream(stream) /\ f = 1 ->
              [remote |-> Faulted(rem, TRUE), calls |-> <<get_call>>,
               printed |-> <<Line("enhanced_error")>>]
         [] OTHER ->
              [remote |-> IF outcome = "ok"
                          THEN [rem EXCEPT !.streams[k].enhanced =
                                   ApplyMask(@, sent, EnhancedMask)]
                          ELSE Faulted(rem, outcome = "ServiceUnavailable"),
               calls |-> <<get_call, update_call>>,
               printed |-> IF outcome = "ok" THEN <<Line("enhanced")>>
                           ELSE <<Line("enhanced_error")>>]

\* GA4Setup.setup_data_retention with fault f: 1 loses get_property, 2
\* get_data_retention_settings, 3 the update
setup_data_retention(rem, denied, f) ==
    LET get_property == Call("client.get_property", <<>>,
                             IF f = 1 THEN "ServiceUnavailable" ELSE "ok")
        get_settings == Call("client.get_data_retention_settings", <<>>,
                             IF f = 2 THEN "ServiceUnavailable" ELSE "ok")
        outcome == CASE denied -> "PermissionDenied"
                     [] f = 3 -> "ServiceUnavailable"
                     [] OTHER -> "ok"
        update == Call("client.update_data_retention_settings",
                       [event_data_retention |-> "FOURTEEN_MONTHS",
                        reset_user_data_on_new_activity |-> TRUE],
                       outcome)
    IN CASE f = 1 ->
              [remote |-> Faulted(rem, TRUE), calls |-> <<get_property>>,
               printed |-> <<Line("retention_error")>>]
         [] f = 2 ->
              [remote |-> Faulted(rem, TRUE),
               calls |-> <<get_property, get_settings>>,
               printed |-> <<Line("retention_error")>>]
         [] OTHER ->
              [remote |-> IF outcome = "ok"
                          THEN [rem EXCEPT !.retention = update.arg]
                          ELSE Faulted(rem, outcome = "ServiceUnavailable"),
               calls |-> <<get_property, get_settings, update>>,
               printed |-> IF outcome = "ok" THEN <<Line("retention_set")>>
                           ELSE IF outcome = "PermissionDenied"
                           THEN <<Line("permission_error")>>
                           ELSE <<Line("retention_error")>>]

\* GA4Setup.save_setup_report with fault f: the k-th of its three listings
\* fails and reads as []
save_setup_report(rem, f) ==
    [calls |-> << Call("client.list_custom_dimensions",
                       get_custom_dimensions(rem, f = 1),
                       IF f = 1 THEN "ServiceUnavailable" ELSE "ok"),
                  Call("client.list_data_streams",
                       IF f = 2 THEN <<>> ELSE rem.streams,
                       IF f = 2 THEN "ServiceUnavailable" ELSE "ok"),
                  Call("client.list_conversion_events",
                       IF f = 3 THEN <<>> ELSE rem.events,
                       IF f = 3 THEN "ServiceUnavailable" ELSE "ok") >>,
     file |-> [path |-> "output/reports/ga4_setup_report.json",
               custom_dimensions |-> get_custom_dimensions(rem, f = 1),
               data_streams |-> IF f = 2 THEN <<>> ELSE rem.streams,
               conversion_events |-> IF f = 3 THEN <<>> ELSE rem.events],
     printed |-> (IF f = 0 THEN <<>> ELSE <<Line("list_warning")>>)
                 \o <<Line("setup_report_saved")>>]

(***************************************************************************)
(* Setup runs: GA4Setup.setup_all, one action per sub-operation, and the   *)
(* program run again on the same property.                                 *)
(***************************************************************************)
StreamTypes == {"WEB_DATA_STREAM", "ANDROID_APP_DATA_STREAM"}

\* a data stream as the property stores it: its type and the enhanced
\* measurement flags that are enabled
Stream(type) == [type |-> type, enhanced |-> {"page_changes_enabled"}]

StreamLists ==
    UNION { [1..n -> {Stream(t) : t \in StreamTypes}] : n \in 0..MaxStreams }

\* what the property holds before the run: nothing; some of the dimensions
\* and events and room for three more dimensions; everything, at the limit
PropertyProfiles ==
    { [dimensions |-> {}, others |-> 0, events |-> <<>>],
      [dimensions |-> {"campaign_id", "utm_source"},
       others |-> DimensionLimit - 5, events |-> <<"qr_code_scan">>],
      [dimensions |-> Range(Dimensions),
       others |-> DimensionLimit - Len(Dimensions),
       events |-> <<"purchase", "campaign_click">>] }

SetupRemotes ==
    { [NoRemote EXCEPT !.dimensions = p.dimensions, !.others = p.others,
                       !.events = p.events, !.streams = st] :
        p \in PropertyProfiles, st \in StreamLists }

\* load_config and authenticate of GA4Setup succeed
SetupStarts(e) ==
    e.config = "ok" /\ ~NoPropertyId(e.property_id) /\ e.credentials = "ok"

\* what a setup run finds on disk: campaigns.yml missing, unparseable, without
\* conversion_events or with some; the caller an editor or not; or a platform
\* configuration or key file that stops the run
SetupEnvs ==
    { Env("ok", PropertyId, y[1], <<>>, y[2], "ok", d) :
        y \in { <<"missing", None>>, <<"unparseable", None>>, <<"ok", None>>,
                <<"ok", <<>> >>,
                <<"ok", <<"purchase", "qr_code_scan">> >>,
                <<"ok", <<"purchase", "purchase">> >> },
        d \in BOOLEAN }
    \cup { e \in { Env(c, p, "ok", <<>>, None, k, FALSE) :
                     c \in FileStates, p \in PropertyIds,
                     k \in CredentialStates } :
             ~SetupStarts(e) /\ (e.config # "ok" => e.property_id = PropertyId) }

\* the process-local state before a run
SetupIdle ==
    /\ campaigns = <<>> /\ args = NoArgs
    /\ qr_out = <<>> /\ qr_again = <<>>
    /\ i = 1 /\ fetches = <<>> /\ responses = <<>> /\ results = <<>>
    /\ csv = <<>> /\ report_date = BadDate /\ printed = <<>>
    /\ exit_code = Running /\ command = NoCommand
    /\ calls = <<>> /\ written = <<>>

InitSetup ==
    /\ env \in SetupEnvs
    /\ remote \in IF SetupStarts(env) THEN SetupRemotes ELSE {NoRemote}
    /\ pc = "setup_load_config"
    /\ SetupIdle

\* GA4Setup.load_config: every failure is handled and calls sys.exit(1)
Setup_LoadConfigOutcome(e) ==
    IF e.config = "ok" /\ ~NoPropertyId(e.property_id) THEN "ok" ELSE "exit"

\* self.load_config() in setup_all
Setup_LoadConfig ==
    /\ pc = "setup_load_config"
    /\ LET outcome == Setup_LoadConfigOutcome(env)
       IN /\ calls' = Append(calls, Call("load_config", <<>>, outcome))
          /\ IF outcome = "ok"
             THEN /\ printed' = Append(printed, Line("config_loaded"))
                  /\ pc' = "setup_authenticate"
                  /\ UNCHANGED exit_code
             ELSE /\ printed' = Append(printed, Line("config_error"))
                  /\ pc' = "done" /\ exit_code' = 1
    /\ UNCHANGED <<campaigns, qr_out, qr_again, args, i, fetches, responses,
                   results, csv, report_date, env, command, remote, written>>

\* self.authenticate() in setup_all
Setup_Authenticate ==
    /\ pc = "setup_authenticate"
    /\ LET outcome == IF env.credentials = "ok" THEN "ok" ELSE "exit"
       IN /\ calls' = Append(calls, Call("authenticate", <<>>, outcome))
          /\ IF outcome = "ok"
             THEN /\ printed' = Append(printed, Line("auth_ok"))
                  /\ pc' = "setup_dimensions"
                  /\ UNCHANGED exit_code
             ELSE /\ printed' = Append(printed, Line("auth_error"))
                  /\ pc' = "done" /\ exit_code' = 1
    /\ UNCHANGED <<campaigns, qr_out, qr_again, args, i, fetches, responses,
                   results, csv, report_date, env, command, remote, written>>

\* one iteration of `for dim in dimensions` in setup_custom_dimensions
Setup_CustomDimension ==
    /\ pc = "setup_dimensions"
    /\ \E f \in Faults(remote, 2) :
         LET r == create_custom_dimension(remote, Dimensions[i], env.denied, f)
         IN /\ remote' = r.remote
            /\ calls' = calls
                 \o <<Call("create_custom_dimension", Dimensions[i], "called")>>
                 \o r.calls
            /\ printed' = printed \o r.printed
    /\ IF i < Len(Dimensions)
       THEN i' = i + 1 /\ pc' = pc
       ELSE i' = 1 /\ pc' = "setup_streams_list"
    /\ UNCHANGED <<campaigns, qr_out, qr_again, args, fetches, responses,
                   results, csv, report_date, exit_code, env, command, written>>

\* setup_enhanced_measurement up to its loop: client.list_data_streams
Setup_ListStreams ==
    /\ pc = "setup_streams_list"
    /\ \E f \in Faults(remote, 1) :
         /\ remote' = Faulted(remote, f = 1)
         /\ calls' = calls
              \o <<Call("setup_enhanced_measurement", <<>>, "called"),
                   Call("client.list_data_streams",
                        IF f = 1 THEN <<>> ELSE remote.streams,
                        IF f = 1 THEN "ServiceUnavailable" ELSE "ok")>>
         /\ printed' = printed
              \o (IF f = 1 THEN <<Line("streams_error")>> ELSE <<>>)
         /\ pc' = IF f = 1 \/ remote.streams = <<>>
                  THEN "setup_retention" ELSE "setup_streams"
    /\ i' = 1
    /\ UNCHANGED <<campaigns, qr_out, qr_again, args, fetches, responses,
                   results, csv, report_date, exit_code, env, command, written>>

\* one iteration of the stream loop of setup_enhanced_measurement
Setup_EnhancedStream ==
    /\ pc = "setup_streams"
    /\ \E f \in Faults(remote, 2) :
         LET r == enhance_stream(remote, i, env.denied, f)
         IN /\ remote' = r.remote
            /\ calls' = calls \o r.calls
            /\ printed' = printed \o r.printed
    /\ IF i < Len(remote.streams)
       THEN i' = i + 1 /\ pc' = pc
       ELSE i' = 1 /\ pc' = "setup_retention"
    /\ UNCHANGED <<campaigns, qr_out, qr_again, args, fetches, responses,
                   results, csv, report_date, exit_code, env, command, written>>

\* self.setup_data_retention() in setup_all
Setup_DataRetention ==
    /\ pc = "setup_retention"
    /\ \E f \in Faults(remote, 3) :
         LET r == setup_data_retention(remote, env.denied, f)
         IN /\ remote' = r.remote
            /\ calls' = calls
                 \o <<Call("setup_data_retention", <<>>, "called")>> \o r.calls
            /\ printed' = printed \o r.printed
    /\ pc' = "setup_events_load" /\ i' = 1
    /\ UNCHANGED <<campaigns, qr_out, qr_again, args, fetches, responses,
                   results, csv, report_date, exit_code, env, command, written>>

\* setup_conversion_events up to its loop: campaigns.yml is read, and a
\* failure to read it is caught and replaced by the default events
Setup_LoadConversionEvents ==
    /\ pc = "setup_events_load"
    /\ calls' = Append(calls,
           Call("setup_conversion_events", ConversionEvents(env),
                IF env.campaigns_file = "ok" THEN "ok" ELSE "defaults"))
    /\ printed' = printed
         \o (IF env.campaigns_file # "ok" THEN <<Line("campaigns_error")>>
             ELSE <<>>)
    /\ pc' = "setup_events" /\ i' = 1
    /\ UNCHANGED <<campaigns, qr_out, qr_again, args, fetches, responses,
                   results, csv, report_date, exit_code, env, command, remote, written>>

\* one iteration of `for event in conversion_events`
Setup_ConversionEvent ==
    /\ pc = "setup_events"
    /\ \E f \in Faults(remote, 2) :
         LET event_name == ConversionEvents(env)[i]
             r == create_conversion_event(remote, event_name, env.denied, f)
         IN /\ remote' = r.remote
            /\ calls' = calls
                 \o <<Call("create_conversion_event", event_name, "called")>>
                 \o r.calls
            /\ printed' = printed \o r.printed
    /\ IF i < Len(ConversionEvents(env))
       THEN i' = i + 1 /\ pc' = pc
       ELSE i' = 1 /\ pc' = "setup_report"
    /\ UNCHANGED <<campaigns, qr_out, qr_again, args, fetches, responses,
                   results, csv, report_date, exit_code, env, command, written>>

\* the end of setup_all: save_setup_report, then generate_gtm_helper
Setup_SaveReport ==
    /\ pc = "setup_report"
    /\ \E f \in Faults(remote, 3) :
         LET r == save_setup_report(remote, f)
         IN /\ remote' = Faulted(remote, f # 0)
            /\ calls' = calls
                 \o <<Call("save_setup_report", <<>>, "called")>> \o r.calls
            /\ printed' = printed \o r.printed \o <<Line("setup_done")>>
            /\ written' = written
                 \o <<r.file,
                      [path |-> "output/reports/gtm_setup_helper.json"]>>
    /\ pc' = "done" /\ exit_code' = 0
    /\ UNCHANGED <<campaigns, qr_out, qr_again, args, i, fetches, responses,
                   results, csv, report_date, env, command>>

\* the program started again on the same files and the same property
Setup_Rerun ==
    /\ pc = "done" /\ exit_code = 0 /\ calls # <<>> /\ calls[1].op = "load_config"
    /\ written # <<>>
    /\ pc' = "setup_load_config"
    /\ i' = 1 /\ printed' = <<>> /\ calls' = <<>> /\ written' = <<>>
    /\ exit_code' = Running
    /\ UNCHANGED <<campaigns, qr_out, qr_again, args, fetches, responses,
                   results, csv, report_date, env, command, remote>>

NextSetup ==
    \/ Setup_LoadConfig \/ Setup_Authenticate \/ Setup_CustomDimension
    \/ Setup_ListStreams \/ Setup_EnhancedStream \/ Setup_DataRetention
    \/ Setup_LoadConversionEvents \/ Setup_ConversionEvent
    \/ Setup_SaveReport \/ Setup_Rerun

SpecSetup == InitSetup /\ [][NextSetup]_vars

(***************************************************************************)
(* Ensure runs: create_custom_dimension called twice in a row with the     *)
(* same parameter_name, Dimensions[i].                                     *)
(***************************************************************************)
InitEnsure ==
    /\ env \in { Env("ok", PropertyId, "ok", <<>>, None, "ok", d) :
                   d \in BOOLEAN }
    /\ remote \in { r \in SetupRemotes : r.streams = <<>> }
    /\ pc = "ensure_first"
    /\ campaigns = <<>> /\ args = NoArgs
    /\ qr_out = <<>> /\ qr_again = <<>>
    /\ i \in 1..Len(Dimensions)
    /\ fetches = <<>> /\ responses = <<>> /\ results = <<>>
    /\ csv = <<>> /\ report_date = BadDate /\ printed = <<>>
    /\ exit_code = Running /\ command = NoCommand
    /\ calls = <<>> /\ written = <<>>

\* create_custom_dimension(Dimensions[i], ...), the value it returns kept
EnsureCall ==
    \E f \in Faults(remote, 2) :
        LET r == create_custom_dimension(remote, Dimensions[i], env.denied, f)
        IN /\ remote' = r.remote
           /\ calls' = calls
                \o <<Call("create_custom_dimension", Dimensions[i], "called")>>
                \o r.calls
           /\ printed' = printed \o r.printed
           /\ results' = Append(results, r.ret)

\* the first call
Ensure_First ==
    /\ pc = "ensure_first"
    /\ EnsureCall
    /\ pc' = "ensure_second"
    /\ UNCHANGED <<campaigns, qr_out, qr_again, args, i, fetches, responses,
                   csv, report_date, exit_code, env, command, written>>

\* the second call, with the same parameter_name
Ensure_Second ==
    /\ pc = "ensure_second"
    /\ EnsureCall
    /\ pc' = "ensure_done"
    /\ UNCHANGED <<campaigns, qr_out, qr_again, args, i, fetches, responses,
                   csv, report_date, exit_code, env, command, written>>

NextEnsure == Ensure_First \/ Ensure_Second

SpecEnsure == InitEnsure /\ [][NextEnsure]_vars

(***************************************************************************)
(* QR runs: QRCodeGenerator.generate_all, one action per campaign.         *)
(***************************************************************************)
\* campaigns of the QR runs: two complete ones, one without `name`, one
\* without `target_url`
QrCampaigns ==
    { Campaign(<<"Expo">>, <<"Tokyo", " ", "Station">>, DateStr(1),
               DateStr(MaxDay), 1000, BaseUrl),
      Campaign(<<"Spring", " ", "Sale">>, <<>>, DateStr(1), DateStr(MaxDay),
               1000, BaseUrl \o <<"?", "ref", "=", "1">>),
      Campaign(Missing, <<"Tokyo", " ", "Station">>, DateStr(1),
               DateStr(MaxDay), 1000, BaseUrl),
      Campaign(<<"Expo">>, <<"Tokyo", " ", "Station">>, DateStr(1),
               DateStr(MaxDay), 1000, Missing) }

QrEnvs ==
    { Env("ok", PropertyId, "ok", cs, None, "ok", FALSE) :
        cs \in CampaignLists(QrCampaigns) }
    \cup { Env("ok", PropertyId, f, <<>>, None, "ok", FALSE) :
             f \in {"missing", "unparseable"} }

InitQr ==
    /\ env \in QrEnvs
    /\ campaigns = <<>> /\ args = NoArgs
    /\ pc = "load_campaigns"
    /\ Idle

\* campaign['name'].replace('/', '_').replace(' ', '_')
SafeName(name) ==
    [k \in 1..Len(name) |-> IF name[k] \in {"/", " "} THEN "_" ELSE name[k]]

\* os.path.join(self.output_dir, f"{campaign_id}_{safe_name}.png")
QrPath(campaign_id, name) ==
    <<"output/qr_codes", "/">> \o campaign_id \o <<"_">> \o SafeName(name)
    \o <<".png">>

\* generate_all up to its loop: load_campaigns, where a missing or
\* unparseable campaigns.yml ends the process, and the empty-list test
Qr_LoadCampaigns ==
    /\ pc = "load_campaigns"
    /\ LET outcome == IF env.campaigns_file = "ok" THEN "ok" ELSE "exit"
       IN /\ calls' = Append(calls, Call("load_campaigns", <<>>, outcome))
          /\ CASE outcome = "exit" ->
                    /\ printed' = Append(printed, Line("config_error"))
                    /\ pc' = "done" /\ exit_code' = 1
                    /\ UNCHANGED campaigns
               [] outcome = "ok" /\ env.campaigns = <<>> ->
                    /\ campaigns' = env.campaigns
                    /\ printed' = printed
                         \o <<Line("campaigns_loaded"), Line("no_campaigns")>>
                    /\ pc' = "done" /\ exit_code' = 0
               [] OTHER ->
                    /\ campaigns' = env.campaigns
                    /\ printed' = Append(printed, Line("campaigns_loaded"))
                    /\ pc' = "qr_loop"
                    /\ UNCHANGED exit_code
    /\ UNCHANGED <<qr_out, qr_again, args, i, fetches, responses, results,
                   csv, report_date, env, command, remote, written>>

\* the except branch prints campaign['name']: a campaign without the key
\* raises KeyError inside the handler
HandlerRaises(campaign) == campaign.name = Missing

\* build_utm_url(campaign) raises: a key it reads is not there
BuildRaises(campaign) ==
    Missing \in {campaign.name, campaign.start_date, campaign.target_url,
                 campaign.location}

\* one iteration of `for i, campaign in enumerate(self.campaigns, 1)`:
\* rendering and saving succeed or raise
Qr_Step ==
    /\ pc = "qr_loop" /\ i <= Len(campaigns)
    /\ LET campaign == campaigns[i]
       IN \E outcome \in {"ok", "render_error", "save_error"} :
            LET failed == BuildRaises(campaign) \/ outcome # "ok"
                built == build_utm_url(campaign)
            IN CASE ~failed ->
                      /\ qr_out' = Append(qr_out, built)
                      /\ written' = Append(written,
                             [path |-> QrPath(built.campaign_id, campaign.name),
                              url |-> built.utm_url])
                      /\ printed' = Append(printed,
                             [kind |-> "qr_saved", name |-> campaign.name,
                              total |-> i])
                      /\ i' = i + 1
                      /\ UNCHANGED <<pc, exit_code>>
                 [] failed /\ ~HandlerRaises(campaign) ->
                      /\ printed' = Append(printed,
                             [kind |-> "qr_error", name |-> campaign.name,
                              total |-> i])
                      /\ i' = i + 1
                      /\ UNCHANGED <<pc, exit_code, qr_out, written>>
                 [] OTHER ->
                      /\ pc' = "done" /\ exit_code' = 1
                      /\ UNCHANGED <<i, printed, qr_out, written>>
    /\ UNCHANGED <<campaigns, qr_again, args, fetches, responses, results,
                   csv, report_date, env, command, remote, calls>>

\* the end of generate_all
Qr_Finish ==
    /\ pc = "qr_loop" /\ i > Len(campaigns)
    /\ printed' = Append(printed, Line("qr_done"))
    /\ pc' = "done" /\ exit_code' = 0
    /\ UNCHANGED <<campaigns, qr_out, qr_again, args, i, fetches, responses,
                   results, csv, report_date, env, command, remote, calls, written>>

NextQr == Qr_LoadCampaigns \/ Qr_Step \/ Qr_Finish

SpecQr == InitQr /\ [][NextQr]_vars

(***************************************************************************)
(* The program: any of the runs above.                                     *)
(***************************************************************************)
(***************************************************************************)
(* The subcommands of main.py.  A stage is one call made inside a          *)
(* try/except Exception block: it returns, raises an exception, or calls   *)
(* sys.exit(1), which `except Exception` does not catch.                   *)
(***************************************************************************)
Commands ==
    {"generate-qr", "configure-ga4", "generate-report",
     "generate-period-report", "all"}

\* the calls a subcommand makes, in order
Stages(cmd) ==
    CASE cmd = "generate-qr" -> <<"generate_all">>
      [] cmd = "configure-ga4" -> <<"setup_all">>
      [] cmd = "generate-report" -> <<"run">>
      [] cmd = "generate-period-report" -> <<"run">>
      [] cmd = "all" -> <<"generate_all", "setup_all", "run">>

\* how a stage ends: generate_all, setup_all and run each have all three ends
StageOutcomes == {"returned", "raised", "exit"}

\* the options of a subcommand as it passes them to ReportGenerator.run;
\* --start-date and --end-date are required options
CommandArgs(cmd) ==
    CASE cmd = "generate-report" -> DailyArgs
      [] cmd = "generate-period-report" ->
            { a \in PeriodArgs : a.start_date # None /\ a.end_date # None }
      [] cmd = "all" ->
            { [mode |-> "daily", date |-> None, start_date |-> None,
               end_date |-> None] }
      [] OTHER -> {NoArgs}

InitCli ==
    /\ command \in Commands
    /\ args \in CommandArgs(command)
    /\ env = NoFiles /\ campaigns = <<>>
    /\ pc = "cli_stage"
    /\ qr_out = <<>> /\ qr_again = <<>>
    /\ i = 1 /\ fetches = <<>> /\ responses = <<>> /\ results = <<>>
    /\ csv = <<>> /\ report_date = BadDate
    /\ printed = IF command = "all" THEN <<Line("all_start")>> ELSE <<>>
    /\ exit_code = Running
    /\ remote = NoRemote /\ calls = <<>> /\ written = <<>>

\* click.echo(f"...エラー: {e}", err=True) in an except branch
StageError(stage) == [kind |-> "stage_error", name |-> <<stage>>, total |-> 0]

\* the except branch of `all` has no sys.exit(1)
Swallows(cmd) == cmd = "all"

\* one try/except block of a subcommand
Cli_Stage ==
    /\ pc = "cli_stage"
    /\ \E outcome \in StageOutcomes :
         LET stage == Stages(command)[i]
             goes_on == outcome = "returned"
                          \/ (outcome = "raised" /\ Swallows(command))
         IN /\ calls' = Append(calls, Call(stage, args, outcome))
            /\ printed' = printed
                 \o (IF outcome = "raised" THEN <<StageError(stage)>>
                     ELSE <<>>)
            /\ IF goes_on
               THEN /\ UNCHANGED exit_code
                    /\ IF i < Len(Stages(command))
                       THEN i' = i + 1 /\ pc' = pc
                       ELSE i' = i /\ pc' = "cli_return"
               ELSE /\ exit_code' = 1 /\ pc' = "done" /\ i' = i
    /\ UNCHANGED <<campaigns, qr_out, qr_again, args, fetches, responses,
                   results, csv, report_date, env, command, remote, written>>

\* the subcommand's function returns: the process ends with status 0
Cli_Return ==
    /\ pc = "cli_return"
    /\ printed' = printed
         \o (IF command = "all" THEN <<Line("all_done")>> ELSE <<>>)
    /\ exit_code' = 0 /\ pc' = "done"
    /\ UNCHANGED <<campaigns, qr_out, qr_again, args, i, fetches, responses,
                   results, csv, report_date, env, command, remote, calls,
                   written>>

NextCli == Cli_Stage \/ Cli_Return

SpecCli == InitCli /\ [][NextCli]_vars

(***************************************************************************)
(* The two commands that talk to the platform: configure-ga4 runs          *)
(* GA4Setup.setup_all, generate-report and generate-period-report run      *)
(* ReportGenerator.run.                                                    *)
(***************************************************************************)
InitStartup == InitSetup \/ InitReport

NextStartup == NextSetup \/ NextReport

SpecStartup == InitStartup /\ [][NextStartup]_vars

Init ==
    \/ InitUrl \/ InitMetrics \/ InitReport \/ InitSetup \/ InitEnsure
    \/ InitQr \/ InitCli

Next ==
    \/ NextUrl \/ NextMetrics \/ NextReport \/ NextSetup \/ NextEnsure
    \/ NextQr \/ NextCli

Spec == Init /\ [][Next]_vars

(***************************************************************************)
(* Reading a URL as its recipient does: the query runs from the first "?"  *)
(* to the "#", its "&"-separated fields are name=value pairs, a field      *)
(* without "=" or with nothing after it is a parameter with an empty       *)
(* value, and names and values are percent-decoded.                        *)
(***************************************************************************)
RefQuery(url) ==
    LET h == IndexOf(url, "#", 1)
        u == IF h = 0 THEN url ELSE Before(url, h)
        q == IndexOf(u, "?", 1)
    IN IF q = 0 THEN <<>> ELSE After(u, q)

RefDecode(s) ==
    [k \in 1..Len(s) |->
        CASE s[k] = "+" -> " " [] s[k] = "%20" -> " " [] s[k] = "%26" -> "&"
          [] s[k] = "%3D" -> "=" [] s[k] = "%2B" -> "+" [] OTHER -> s[k]]

RECURSIVE RefPairsOf(_)
RefPairsOf(fields) ==
    IF fields = <<>> THEN <<>>
    ELSE LET field == Head(fields)
             e == IndexOf(field, "=", 1)
         IN (IF field = <<>> THEN <<>>
             ELSE <<[name |-> RefDecode(IF e = 0 THEN field ELSE Before(field, e)),
                     value |-> RefDecode(IF e = 0 THEN <<>> ELSE After(field, e))]>>)
            \o RefPairsOf(Tail(fields))

\* the (name, value) pairs of the URL's query, in order of occurrence
RefPairs(url) ==
    IF RefQuery(url) = <<>> THEN <<>>
    ELSE RefPairsOf(Split(RefQuery(url), "&"))

RECURSIVE ValuesOf(_, _)
\* the values of parameter `key` among the pairs, in order of occurrence
ValuesOf(pairs, key) ==
    IF pairs = <<>> THEN <<>>
    ELSE (IF Head(pairs).name = key THEN <<Head(pairs).value>> ELSE <<>>)
         \o ValuesOf(Tail(pairs), key)

\* the parameter names among the pairs
KeysOf(pairs) == {pairs[k].name : k \in 1..Len(pairs)}

RefValues(url, key) == ValuesOf(RefPairs(url), key)

RefKeys(url) == KeysOf(RefPairs(url))

UtmKeys == {<<"utm_source">>, <<"utm_medium">>, <<"utm_campaign">>,
            <<"utm_content">>, <<"utm_term">>}

(***************************************************************************)
(* Campaign identity and attribution URL (SpecUrl).                        *)
(***************************************************************************)
\* C1: the QR generator and the report generator derive the same token for a
\* campaign; the token is the same for every campaign with the same name and
\* start_date, whatever its location, end_date, budget and target_url; the
\* utm_campaign value of the QR URL equals the sessionCampaignId filter of the
\* report request and the campaign_id of the report row.
C1_SameIdentity ==
    \A k \in 1..Len(campaigns) :
        LET c == campaigns[k]
            token == QR_generate_campaign_id(c)
        IN /\ Report_generate_campaign_id(c) = token
           /\ \A c2 \in {[c EXCEPT !.location = l] : l \in Locations}
                      \cup {[c EXCEPT !.end_date = e] : e \in DateTexts}
                      \cup {[c EXCEPT !.budget = b] : b \in Budgets}
                      \cup {[c EXCEPT !.target_url = BaseUrl]} :
                 /\ QR_generate_campaign_id(c2) = token
                 /\ Report_generate_campaign_id(c2) = token
           /\ k <= Len(qr_out) =>
                 /\ qr_out[k].campaign_id = token
                 /\ RefValues(qr_out[k].utm_url, <<"utm_campaign">>) = <<token>>
           /\ (pc = "url_done" /\ k <= Len(fetches)) =>
                 /\ <<fetches[k].dimension_filter>>
                      = RefValues(qr_out[k].utm_url, <<"utm_campaign">>)
                 /\ <<results[k].campaign_id>>
                      = RefValues(qr_out[k].utm_url, <<"utm_campaign">>)

\* C1 witness: the QR URL and the report request and row of one campaign exist,
\* for a campaign whose target_url carries a query
C1_Witness ==
    /\ pc = "url_done"
    /\ campaigns[1].target_url # BaseUrl
    /\ campaigns[1].location = <<>>
    /\ fetches[1].dimension_filter = qr_out[1].campaign_id
    /\ results[1].campaign_id = qr_out[1].campaign_id

\* C2: every parameter of target_url whose name is not a utm_* key has the same
\* list of values in the URL build_utm_url returns, repeated and empty values
\* included.
C2_OtherParamsKept ==
    \A k \in 1..Len(qr_out) :
        LET before == RefPairs(campaigns[k].target_url)
            after == RefPairs(qr_out[k].utm_url)
        IN \A key \in KeysOf(before) \ UtmKeys :
              ValuesOf(after, key) = ValuesOf(before, key)

\* C3: the query of the URL build_utm_url returns holds exactly one value for
\* each of the five utm_* keys: offline, print, the token, the location and the
\* name, whatever values target_url had for those keys.
C3_FiveKeysOverwritten ==
    \A k \in 1..Len(qr_out) :
        LET after == RefPairs(qr_out[k].utm_url)
            c == campaigns[k]
        IN /\ ValuesOf(after, <<"utm_source">>) = << <<"offline">> >>
           /\ ValuesOf(after, <<"utm_medium">>) = << <<"print">> >>
           /\ ValuesOf(after, <<"utm_campaign">>)
                 = <<QR_generate_campaign_id(c)>>
           /\ ValuesOf(after, <<"utm_content">>) = <<c.location>>
           /\ ValuesOf(after, <<"utm_term">>) = <<c.name>>

\* C3 witness: a URL was built from a target_url that carried two values for
\* utm_term, for a campaign whose name needs escaping
C3_Witness ==
    /\ Len(qr_out) = 1
    /\ Len(RefValues(campaigns[1].target_url, <<"utm_term">>)) = 2
    /\ campaigns[1].name = <<"Spring", "&", "Sale">>

\* C4: build_utm_url applied to its own output gives the same five utm_*
\* key-value pairs, each key once, the same token and the same query mapping.
C4_Idempotent ==
    \A k \in 1..Len(qr_again) :
        LET first == RefPairs(qr_out[k].utm_url)
            second == RefPairs(qr_again[k].utm_url)
        IN /\ qr_again[k].campaign_id = qr_out[k].campaign_id
           /\ \A key \in UtmKeys :
                 /\ Len(ValuesOf(second, key)) = 1
                 /\ ValuesOf(second, key) = ValuesOf(first, key)
           /\ KeysOf(second) = KeysOf(first)
           /\ \A key \in KeysOf(first) :
                 ValuesOf(second, key) = ValuesOf(first, key)

\* C4 witness: the second URL was built, from a first URL that kept a repeated
\* non-attribution parameter and replaced a pre-existing utm_term
C4_Witness ==
    /\ Len(qr_again) = 1
    /\ Len(RefValues(qr_out[1].utm_url, <<"ref">>)) = 2
    /\ RefValues(campaigns[1].target_url, <<"utm_term">>) # <<>>

(***************************************************************************)
(* Report windows (SpecReport).  results[j].index is the position in the   *)
(* campaign list of the campaign row j was computed for, and fetches[j] is *)
(* the request issued for row j.                                           *)
(***************************************************************************)
RowsFor(k) == {j \in 1..Len(results) : results[j].index = k}

\* C5: in period mode a campaign with window [cs, ce] under report window
\* [rs, re] is fetched over exactly [max(cs, rs), min(ce, re)], and is skipped
\* (no request, no row) exactly when max(cs, rs) > min(ce, re).
C5_PeriodIntersection ==
    (args.mode = "period" /\ pc \in {"period_loop", "done"}) =>
        /\ Len(fetches) = Len(results)
        /\ \A k \in 1..Len(campaigns) :
             k < i =>
               LET cs == Strptime(campaigns[k].start_date)
                   ce == Strptime(campaigns[k].end_date)
                   rs == Strptime(args.start_date)
                   re == Strptime(args.end_date)
                   lo == IF cs >= rs THEN cs ELSE rs
                   hi == IF ce <= re THEN ce ELSE re
               IN /\ (RowsFor(k) = {}) <=> (lo > hi)
                  /\ Cardinality(RowsFor(k)) <= 1
                  /\ \A j \in RowsFor(k) :
                        /\ fetches[j].start_date = DateStr(lo)
                        /\ fetches[j].end_date = DateStr(hi)

\* C5 witness: a finished period run fetched one campaign over a one-day
\* intersection of two longer windows and skipped another campaign
C5_Witness ==
    /\ args.mode = "period" /\ pc = "done" /\ exit_code = 0
    /\ Len(campaigns) = 2 /\ Len(results) = 1
    /\ fetches[1].start_date = fetches[1].end_date
    /\ campaigns[results[1].index].start_date # campaigns[results[1].index].end_date
    /\ args.start_date # args.end_date

\* C6: in daily mode for day d a campaign is fetched if and only if
\* start_date <= d <= end_date, over exactly [d, d]; a campaign outside the
\* window causes no request and no row.
C6_DailyWindow ==
    (args.mode = "daily" /\ pc \in {"daily_loop", "done"}
       /\ report_date # BadDate) =>
        /\ Len(fetches) = Len(results)
        /\ \A k \in 1..Len(campaigns) :
             k < i =>
               LET cs == Strptime(campaigns[k].start_date)
                   ce == Strptime(campaigns[k].end_date)
               IN /\ (RowsFor(k) # {}) <=> (cs <= report_date /\ report_date <= ce)
                  /\ Cardinality(RowsFor(k)) <= 1
                  /\ \A j \in RowsFor(k) :
                        /\ fetches[j].start_date = DateStr(report_date)
                        /\ fetches[j].end_date = DateStr(report_date)

\* C6 witness: a finished daily run fetched a campaign on the last day of its
\* window and skipped a campaign whose window had ended
C6_Witness ==
    /\ args.mode = "daily" /\ pc = "done" /\ exit_code = 0
    /\ Len(campaigns) = 2 /\ Len(results) = 1
    /\ Strptime(campaigns[results[1].index].end_date) = report_date
    /\ Strptime(campaigns[results[1].index].start_date) < report_date
    /\ \E k \in 1..2 : RowsFor(k) = {} /\ Strptime(campaigns[k].end_date) < report_date

\* every campaign has a window and the report day lies outside all of them
OutsideEveryWindow ==
    /\ report_date # BadDate
    /\ \A k \in 1..Len(campaigns) :
          LET cs == Strptime(campaigns[k].start_date)
              ce == Strptime(campaigns[k].end_date)
          IN /\ cs # BadDate /\ ce # BadDate
             /\ ~(cs <= report_date /\ report_date <= ce)

\* C7: a daily report for a day outside every campaign's window ends normally
\* with no row: no request, no CSV file, exit status 0.
C7_DailyOutsideAllWindows ==
    (args.mode = "daily" /\ pc \in {"daily_loop", "done"} /\ OutsideEveryWindow) =>
        /\ fetches = <<>> /\ results = <<>> /\ csv = <<>>
        /\ pc = "daily_loop" => exit_code = Running
        /\ pc = "done" => exit_code = 0

\* C7 witness: a daily run over two campaigns, both outside the day, has ended
C7_Witness ==
    /\ args.mode = "daily" /\ pc = "done" /\ OutsideEveryWindow
    /\ Len(campaigns) = 2 /\ exit_code = 0
    /\ printed[Len(printed)]
         = [kind |-> "no_campaign_data", name |-> <<>>, total |-> 0]

(***************************************************************************)
(* Aggregation (SpecMetrics).                                              *)
(***************************************************************************)
RECURSIVE RefColumnTotal(_, _)
\* the sum of a column over the rows, in hundredths; an unparseable cell is 0
RefColumnTotal(rows, col) ==
    IF rows = <<>> THEN 0
    ELSE (IF ToNumeric(Head(rows)[col]) = NaN THEN 0
          ELSE ToNumeric(Head(rows)[col]))
         + RefColumnTotal(Tail(rows), col)

\* the same, 0 for a column the response does not have
RefTotal(response, col) ==
    IF col \in response.headers THEN RefColumnTotal(response.rows, col) ELSE 0

NoRows(response) == response.status = "error" \/ response.rows = <<>>

Abs(x) == IF x < 0 THEN -x ELSE x

\* C8: calculate_metrics on an empty row set returns 0 for every volume
\* metric, for both means and for cpa and cost_per_session, for every budget.
C8_EmptyGivesZeros ==
    (pc = "metrics_done" /\ NoRows(responses[1])) =>
        LET m == results[1]
        IN /\ m.total_sessions = 0 /\ m.total_users = 0 /\ m.new_users = 0
           /\ m.page_views = 0 /\ m.conversions = 0
           /\ m.avg_session_duration = 0 /\ m.bounce_rate = 0
           /\ m.cpa = 0 /\ m.cost_per_session = 0
           /\ m.budget = campaigns[1].budget

\* C8 witness: the metrics of a response without rows, for a positive budget
C8_Witness ==
    /\ pc = "metrics_done"
    /\ responses[1].status = "ok" /\ responses[1].rows = <<>>
    /\ campaigns[1].budget = 50000
    /\ results[1].cpa = 0

\* C9 as stated: on a non-empty row set cpa is 0 when the conversions sum to 0
\* and budget / conversions otherwise; cost_per_session likewise with sessions.
C9_ExactQuotient ==
    (pc = "metrics_done" /\ ~NoRows(responses[1])) =>
        LET m == results[1]
            b == campaigns[1].budget
            conv == RefTotal(responses[1], "conversions")
            sess == RefTotal(responses[1], "sessions")
        IN /\ conv = 0 => m.cpa = 0
           /\ conv # 0 => m.cpa * conv = b * 10000
           /\ sess = 0 => m.cost_per_session = 0
           /\ sess # 0 => m.cost_per_session * sess = b * 10000

\* C9 amended: on a non-empty row set cpa is 0 when the conversions sum to 0
\* and budget / conversions rounded to two decimals otherwise (within 0.005 of
\* the quotient); cost_per_session likewise with sessions.
C9_RoundedQuotient ==
    (pc = "metrics_done" /\ ~NoRows(responses[1])) =>
        LET m == results[1]
            b == campaigns[1].budget
            conv == RefTotal(responses[1], "conversions")
            sess == RefTotal(responses[1], "sessions")
        IN /\ conv = 0 => m.cpa = 0
           /\ conv # 0 => 2 * Abs(m.cpa * conv - b * 10000) <= conv
           /\ sess = 0 => m.cost_per_session = 0
           /\ sess # 0 => 2 * Abs(m.cost_per_session * sess - b * 10000) <= sess

\* C9 witness: metrics of rows whose summed conversions (1.5) and summed
\* sessions (3) do not divide the budget (1000): cpa is 666.67
C9_Witness ==
    /\ pc = "metrics_done" /\ ~NoRows(responses[1])
    /\ campaigns[1].budget = 1000
    /\ RefTotal(responses[1], "conversions") = 150
    /\ results[1].cpa = 66667
    /\ RefTotal(responses[1], "sessions") = 300

\* C10 as stated: on a non-empty row set the five totals equal the column sums,
\* an unparseable cell counting 0 and an absent column giving 0.
C10_TotalsAreSums ==
    (pc = "metrics_done" /\ ~NoRows(responses[1])) =>
        LET m == results[1]
            r == responses[1]
        IN /\ m.total_sessions * 100 = RefTotal(r, "sessions")
           /\ m.total_users * 100 = RefTotal(r, "totalUsers")
           /\ m.new_users * 100 = RefTotal(r, "newUsers")
           /\ m.page_views * 100 = RefTotal(r, "screenPageViews")
           /\ m.conversions * 100 = RefTotal(r, "conversions")

\* C10 amended: on a non-empty row set the five totals equal the whole part of
\* the column sums, an unparseable cell counting 0 and an absent column
\* giving 0.
C10_TotalsAreWholeSums ==
    (pc = "metrics_done" /\ ~NoRows(responses[1])) =>
        LET m == results[1]
            r == responses[1]
        IN /\ m.total_sessions = RefTotal(r, "sessions") \div 100
           /\ m.total_users = RefTotal(r, "totalUsers") \div 100
           /\ m.new_users = RefTotal(r, "newUsers") \div 100
           /\ m.page_views = RefTotal(r, "screenPageViews") \div 100
           /\ m.conversions = RefTotal(r, "conversions") \div 100

\* C10 witness: metrics of two rows, one with unparseable cells, from a response
\* without the newUsers column, whose conversions sum to a fraction
C10_Witness ==
    /\ pc = "metrics_done"
    /\ Len(responses[1].rows) = 2
    /\ "newUsers" \notin responses[1].headers
    /\ responses[1].rows[2]["sessions"] = "(not set)"
    /\ RefTotal(responses[1], "conversions") = 150
    /\ results[1].conversions = 1 /\ results[1].new_users = 0
    /\ results[1].total_sessions = 10

(***************************************************************************)
(* The report's output (SpecReport).                                       *)
(***************************************************************************)
\* the campaigns a finished run did not skip, from the dates alone
KeptCampaigns ==
    { k \in 1..Len(campaigns) :
        LET cs == Strptime(campaigns[k].start_date)
            ce == Strptime(campaigns[k].end_date)
        IN IF args.mode = "daily"
           THEN cs <= report_date /\ report_date <= ce
           ELSE LET rs == Strptime(args.start_date)
                    re == Strptime(args.end_date)
                IN (IF cs >= rs THEN cs ELSE rs) <= (IF ce <= re THEN ce ELSE re) }

\* a report run that went through its loop and returned
ReportReturned == pc = "done" /\ exit_code = 0

\* C11: the CSV a daily or period run writes holds exactly one row per
\* non-skipped campaign, in campaign-list order, and none for a skipped one;
\* when every campaign is skipped, and until the run returns, no CSV exists.
C11_CsvRows ==
    /\ ~ReportReturned => csv = <<>>
    /\ ReportReturned =>
         IF KeptCampaigns = {}
         THEN csv = <<>>
         ELSE /\ Len(csv) = 1
              /\ LET rows == csv[1].rows
                 IN /\ Len(rows) = Cardinality(KeptCampaigns)
                    /\ \A j \in 1..Len(rows) :
                          /\ rows[j].index \in KeptCampaigns
                          /\ rows[j].metrics.campaign_name
                               = campaigns[rows[j].index].name
                    /\ \A j \in 1..(Len(rows) - 1) :
                          rows[j].index < rows[j + 1].index

\* C11 witness: a period run over two overlapping campaigns wrote two rows
C11_Witness ==
    /\ ReportReturned /\ args.mode = "period"
    /\ Len(campaigns) = 2 /\ Len(csv) = 1
    /\ Len(csv[1].rows) = 2
    /\ csv[1].rows[1].index = 1 /\ csv[1].rows[2].index = 2

\* the printed lines of one kind, as a set of positions
LinesOf(kind) == {k \in 1..Len(printed) : printed[k].kind = kind}

\* C12: every report run that produces at least one row, daily or period,
\* prints one summary per row and the aggregate total: sum of budgets, sum of
\* sessions, sum of conversions and the overall CPA.
C12_SummaryPrinted ==
    (ReportReturned /\ results # <<>>) =>
        /\ Cardinality(LinesOf("summary")) = Len(results)
        /\ \A j \in 1..Len(results) :
              \E k \in LinesOf("summary") :
                  printed[k].name = results[j].metrics.campaign_name
        /\ \E k \in LinesOf("total_budget") :
              printed[k].total = SumField(results, "budget")
        /\ \E k \in LinesOf("total_sessions") :
              printed[k].total = SumField(results, "total_sessions")
        /\ \E k \in LinesOf("total_conversions") :
              printed[k].total = SumField(results, "conversions")
        /\ LinesOf("average_cpa") # {}

(***************************************************************************)
(* Platform setup (SpecEnsure, SpecSetup).                                 *)
(***************************************************************************)
\* the positions in `calls` of the calls of one operation
CallsOf(op) == {k \in 1..Len(calls) : calls[k].op = op}

\* the positions in `calls` of the calls of one operation with one argument
CallsWith(op, arg) == {k \in CallsOf(op) : calls[k].arg = arg}

Occurrences(seq, name) == Cardinality({k \in 1..Len(seq) : seq[k] = name})

\* C14: create_conversion_event issues a remote create only right after a
\* listing that succeeded and does not hold the event_name; over any number of
\* setup runs the property holds each conversion event name at most once.
C14_NoDuplicateEvent ==
    /\ \A k \in CallsOf("client.create_conversion_event") :
          /\ k > 1
          /\ calls[k - 1].op = "client.list_conversion_events"
          /\ calls[k - 1].outcome = "ok"
          /\ calls[k].arg \notin Range(calls[k - 1].arg)
    /\ \A name \in Range(remote.events) : Occurrences(remote.events, name) = 1

\* C14 witness: a later run on a property that had no event at first: purchase,
\* named twice in campaigns.yml, is stored once and this run created nothing
C14_Witness ==
    /\ pc = "done" /\ exit_code = 0
    /\ env.conversion_events = <<"purchase", "purchase">>
    /\ remote.others = 0 /\ remote.events = <<"purchase">>
    /\ CallsOf("client.create_conversion_event") = {}
    /\ Cardinality(CallsWith("create_conversion_event", "purchase")) = 2

\* the method entries among `calls`
Entries == SelectSeq(calls, LAMBDA c : c.outcome \in {"called", "defaults"}
                                       \/ c.op \in {"load_config", "authenticate",
                                                    "setup_conversion_events"})

\* the sub-operations of a whole setup_all, in order
SetupPlan ==
    << "load_config", "authenticate" >>
    \o [k \in 1..9 |-> "create_custom_dimension"]
    \o << "setup_enhanced_measurement", "setup_data_retention",
          "setup_conversion_events" >>
    \o [k \in 1..Len(ConversionEvents(env)) |-> "create_conversion_event"]
    \o << "save_setup_report" >>

\* C15: once load_config and authenticate have succeeded, whatever the remote
\* calls answer (permission denied, dimension limit reached, another error),
\* setup_all attempts each of the nine custom dimensions, then enhanced
\* measurement, then data retention, then every conversion event, and saves
\* the setup report; the run ends with status 1 only in load_config or
\* authenticate.
C15_AllAttempted ==
    /\ Len(Entries) <= Len(SetupPlan)
    /\ \A k \in 1..Len(Entries) : Entries[k].op = SetupPlan[k]
    /\ \A k \in 1..Len(Entries) :
          /\ (k \in 3..11) =>
                Entries[k].arg
                  = << "campaign_id", "campaign_name", "campaign_location",
                       "print_medium", "utm_source", "utm_medium",
                       "utm_campaign", "utm_content", "utm_term" >>[k - 2]
          /\ (k \in 15..(Len(SetupPlan) - 1)) =>
                Entries[k].arg = ConversionEvents(env)[k - 14]
    /\ exit_code = 1 =>
          /\ Len(calls) <= 2
          /\ calls[Len(calls)].outcome = "exit"
    /\ (Len(calls) >= 2 /\ calls[2].outcome = "ok") => exit_code # 1
    /\ (pc = "done" /\ exit_code = 0) =>
          /\ Len(Entries) = Len(SetupPlan)
          /\ Len(written) = 2
          /\ written[1].path = "output/reports/ga4_setup_report.json"

\* C15 witness: a finished run by a caller without the editor role on a
\* property at the dimension limit, that also lost one listing
C15_Witness ==
    /\ pc = "done" /\ exit_code = 0
    /\ env.denied /\ remote.faulted
    /\ remote.others = DimensionLimit - 5
    /\ \E k \in CallsOf("client.create_custom_dimension") :
          calls[k].outcome = "PermissionDenied"
    /\ \E k \in CallsOf("client.list_data_streams") :
          calls[k].outcome = "ServiceUnavailable"
    /\ Len(written) = 2

\* the runs in which the stream loop of setup_enhanced_measurement is over:
\* its listing succeeded and the run has moved on
StreamsDone ==
    /\ pc \in {"setup_retention", "setup_events_load", "setup_events",
               "setup_report", "done"}
    /\ CallsOf("setup_enhanced_measurement") # {}
    /\ \A k \in CallsOf("setup_enhanced_measurement") :
          calls[k + 1].outcome = "ok"

\* the update calls for stream k
UpdatesOf(k) ==
    { j \in CallsOf("client.update_enhanced_measurement_settings") :
        calls[j].arg.stream = k }

\* C20: setup_enhanced_measurement gets the settings of every web data stream
\* and of no other stream; for each web stream whose settings it got it issues
\* one update that enables the seven flags under a field mask of exactly those
\* seven; a stream whose get or update failed does not stop the later streams.
C20_EnhancedMeasurement ==
    StreamsDone =>
        \A k \in 1..Len(remote.streams) :
            LET gets == CallsWith("client.get_enhanced_measurement_settings", k)
                seven == { "stream_enabled", "scrolls_enabled",
                           "outbound_clicks_enabled", "site_search_enabled",
                           "video_engagement_enabled", "file_downloads_enabled",
                           "form_interactions_enabled" }
            IN IF remote.streams[k].type = "WEB_DATA_STREAM"
               THEN /\ Cardinality(gets) = 1
                    /\ \A g \in gets :
                          IF calls[g].outcome = "ok"
                          THEN /\ UpdatesOf(k) = {g + 1}
                               /\ seven \subseteq calls[g + 1].arg.enabled
                               /\ calls[g + 1].arg.update_mask = seven
                               /\ calls[g + 1].outcome = "ok" =>
                                     seven \subseteq remote.streams[k].enhanced
                          ELSE UpdatesOf(k) = {}
               ELSE gets = {} /\ UpdatesOf(k) = {}

\* C20 witness: two web streams; the settings of the first could not be read,
\* the second was updated
C20_Witness ==
    /\ StreamsDone /\ Len(remote.streams) = 2
    /\ \A k \in 1..2 : remote.streams[k].type = "WEB_DATA_STREAM"
    /\ \E g \in CallsWith("client.get_enhanced_measurement_settings", 1) :
          calls[g].outcome = "ServiceUnavailable"
    /\ \E u \in UpdatesOf(2) : calls[u].outcome = "ok"
    /\ "scrolls_enabled" \in remote.streams[2].enhanced
    /\ "scrolls_enabled" \notin remote.streams[1].enhanced

(***************************************************************************)
(* QR generation (SpecQr).                                                 *)
(***************************************************************************)
\* C16: in QR generation over any campaign list, a failure while building the
\* URL, rendering or saving the image of one campaign is caught and logged
\* and every later campaign is still processed: once the list is loaded the
\* run does not end with an error, and when it ends every campaign has its
\* image or its error line.
C16_FailureIsolated ==
    (calls # <<>> /\ calls[1] = Call("load_campaigns", <<>>, "ok")) =>
        /\ exit_code # 1
        /\ pc = "done" =>
              \A k \in 1..Len(campaigns) :
                  \E j \in LinesOf("qr_saved") \cup LinesOf("qr_error") :
                      printed[j].total = k

(***************************************************************************)
(* Failed fetches (SpecReport).                                            *)
(***************************************************************************)
\* the requests whose remote call failed
FailedFetches == {j \in 1..Len(responses) : responses[j].status = "error"}

\* C17: in daily and period mode a failed remote fetch is caught inside
\* fetch_campaign_data, which prints a warning and hands back no rows: the
\* campaign gets its all-zero row, every later campaign that is not skipped is
\* still fetched and aggregated, and the run writes its CSV with all the rows.
C17_FetchFailureIsolated ==
    /\ Cardinality(LinesOf("fetch_warning")) = Cardinality(FailedFetches)
    /\ \A j \in FailedFetches :
          /\ j <= Len(results)
          /\ results[j].metrics.total_sessions = 0
          /\ results[j].metrics.conversions = 0
          /\ results[j].metrics.cpa = 0
    /\ (ReportReturned /\ FailedFetches # {}) =>
          /\ \A k \in KeptCampaigns : RowsFor(k) # {}
          /\ Len(csv) = 1
          /\ csv[1].rows = results
          /\ Len(fetches) = Cardinality(KeptCampaigns)

\* C17 witness: a daily run over two campaigns whose first fetch failed and
\* whose second fetch returned a row; the CSV holds both rows
C17_Witness ==
    /\ ReportReturned /\ args.mode = "daily"
    /\ Len(responses) = 2
    /\ responses[1].status = "error" /\ responses[2].status = "ok"
    /\ responses[2].rows # <<>>
    /\ Len(csv) = 1 /\ Len(csv[1].rows) = 2
    /\ csv[1].rows[1].metrics.total_sessions = 0
    /\ csv[1].rows[2].metrics.total_sessions = 10

(***************************************************************************)
(* Fatal configuration errors (SpecSetup, SpecStartup).                    *)
(***************************************************************************)
\* a configuration or key file of the run is missing or unparseable
BadFile(e) ==
    e.config # "ok" \/ e.campaigns_file # "ok" \/ e.credentials # "ok"

\* C18: a run of platform setup that found a configuration file or the key
\* file missing or unparseable has ended with a non-zero exit status at the
\* step that detected it, and has written nothing.
C18_ConfigErrorAborts ==
    (pc = "done" /\ BadFile(env)) =>
        /\ exit_code = 1
        /\ calls[Len(calls)].outcome = "exit"
        /\ written = <<>>

\* the operations of `calls` that are requests to the platform
RemoteOps ==
    {"client.list_custom_dimensions", "client.create_custom_dimension",
     "client.list_data_streams", "client.get_enhanced_measurement_settings",
     "client.update_enhanced_measurement_settings",
     "client.get_data_retention_settings",
     "client.update_data_retention_settings",
     "client.list_conversion_events", "client.create_conversion_event",
     "client.get_property"}

\* the startup steps of the run that ended well
StartedUp ==
    /\ Len(calls) >= 2
    /\ calls[1] = Call("load_config", <<>>, "ok")
    /\ calls[2] = Call("authenticate", <<>>, "ok")

\* C19: a run of setup_all or of ReportGenerator.run whose platform
\* configuration has no property_id, or an empty one, ends with exit status 1
\* in load_config, before authenticate and before any remote call; and in
\* every run load_config is the first step, authenticate the second, taken
\* only after load_config succeeded, and every remote call comes after a
\* successful authenticate.
C19_PropertyIdFirst ==
    /\ (env.config = "ok" /\ env.property_id # PropertyId
            /\ pc \notin {"load_config", "setup_load_config"}) =>
          /\ pc = "done" /\ exit_code = 1
          /\ calls = <<Call("load_config", <<>>, "exit")>>
          /\ fetches = <<>> /\ csv = <<>> /\ written = <<>>
    /\ calls # <<>> => calls[1].op = "load_config"
    /\ \A j \in 1..Len(calls) :
          /\ calls[j].op = "load_config" => j = 1
          /\ calls[j].op = "authenticate" =>
                j = 2 /\ calls[1] = Call("load_config", <<>>, "ok")
          /\ calls[j].op \in RemoteOps => j > 2 /\ StartedUp
    /\ fetches # <<>> => StartedUp

\* C19 witness: a report run that read a platform configuration whose
\* property_id is the empty string, and stopped in load_config
C19_Witness ==
    /\ env.config = "ok" /\ env.property_id = <<>>
    /\ args.mode \in {"daily", "period"}
    /\ pc = "done" /\ exit_code = 1
    /\ calls = <<Call("load_config", <<>>, "exit")>>
    /\ fetches = <<>>

(***************************************************************************)
(* Exit status of the subcommands (SpecCli).                               *)
(***************************************************************************)
\* the stages of the finished command that did not return
FailedStages == {j \in 1..Len(calls) : calls[j].outcome # "returned"}

\* C21: a subcommand that has ended exits with status 0 when every stage it
\* ran returned and with status 1 when one of them failed; `all` runs
\* generate_all, setup_all and run in that order and ends with status 1 when
\* any of the three failed.
C21_ExitStatus ==
    (pc = "done" /\ command \in Commands) =>
        /\ exit_code = IF FailedStages = {} THEN 0 ELSE 1
        /\ \A j \in 1..Len(calls) : calls[j].op = Stages(command)[j]

(***************************************************************************)
(* The events setup_conversion_events ensures (SpecSetup).                 *)
(***************************************************************************)
\* the event names of the create_conversion_event calls made so far, in order
EnsuredEvents ==
    LET made == SelectSeq(calls, LAMBDA c : c.op = "create_conversion_event")
    IN [k \in 1..Len(made) |-> made[k].arg]

\* the events the campaign configuration asks for
ListedEvents ==
    IF env.campaigns_file = "ok" /\ env.conversion_events # None
           /\ env.conversion_events # <<>>
    THEN env.conversion_events
    ELSE <<"qr_code_scan", "campaign_click">>

\* C22: setup_conversion_events calls create_conversion_event for exactly the
\* events listed under conversion_events, in list order, and for qr_code_scan
\* then campaign_click when the key is absent or empty or campaigns.yml cannot
\* be read or parsed.
C22_EventsEnsured ==
    /\ pc = "setup_events" =>
          EnsuredEvents = SubSeq(ListedEvents, 1, i - 1)
    /\ (pc = "setup_report" \/ (pc = "done" /\ exit_code = 0)) =>
          EnsuredEvents = ListedEvents
    /\ pc \notin {"setup_events", "setup_report", "done"} =>
          EnsuredEvents = <<>>

\* C22 witness: a finished setup run whose campaigns.yml lists purchase then
\* qr_code_scan, and which ensured the two in that order
C22_Witness ==
    /\ pc = "done" /\ exit_code = 0
    /\ env.campaigns_file = "ok"
    /\ env.conversion_events = <<"purchase", "qr_code_scan">>
    /\ EnsuredEvents = <<"purchase", "qr_code_scan">>

(***************************************************************************)
(* The row of a failed fetch (SpecReport).                                 *)
(***************************************************************************)
\* the metric and cost fields of a row
MetricFields ==
    {"total_sessions", "total_users", "new_users", "page_views",
     "avg_session_duration", "bounce_rate", "conversions", "cpa",
     "cost_per_session"}

\* C23: a campaign whose fetch failed has a row in `results` and in the CSV;
\* the row names the campaign, carries zero for every metric and both cost
\* figures, and equals the row computed for the same campaign from a response
\* that succeeded with no rows.
C23_FailedFetchRow ==
    /\ Len(results) = Len(responses)
    /\ \A j \in FailedFetches :
          LET campaign == campaigns[results[j].index]
          IN /\ \A f \in MetricFields : results[j].metrics[f] = 0
             /\ results[j].metrics.campaign_name = campaign.name
             /\ results[j].metrics.budget = campaign.budget
             /\ \A up \in BOOLEAN :
                   results[j].metrics =
                       calculate_metrics(
                           fetch_campaign_data(OkResponse(AllHeaders, <<>>)),
                           campaign, up)
    /\ (ReportReturned /\ FailedFetches # {}) =>
          /\ Len(csv) = 1
          /\ \A j \in FailedFetches : csv[1].rows[j] = results[j]

\* C23 witness: a period run over two campaigns, the first fetch failed and
\* the second succeeded with no rows; both rows are in the CSV, all zero
C23_Witness ==
    /\ ReportReturned /\ args.mode = "period"
    /\ Len(responses) = 2
    /\ responses[1] = ErrorResponse
    /\ responses[2] = OkResponse(AllHeaders, <<>>)
    /\ Len(csv) = 1 /\ Len(csv[1].rows) = 2
    /\ csv[1].rows[1].metrics.budget > 0
    /\ csv[1].rows[1].metrics.cpa = 0
    /\ csv[1].rows[1].metrics.cost_per_session = 0
    /\ csv[1].rows[2].metrics.total_sessions = 0

(***************************************************************************)
(* When the CSV is written (SpecCrash).                                    *)
(***************************************************************************)
\* the campaigns whose iteration raises outside the fetch call: a date that
\* does not parse, or a campaign that is not skipped and has no location
Raising ==
    { k \in 1..Len(campaigns) :
        \/ Strptime(campaigns[k].start_date) = BadDate
        \/ Strptime(campaigns[k].end_date) = BadDate
        \/ (k \in KeptCampaigns /\ campaigns[k].location = Missing) }

\* C24: a report run writes at most one CSV, and only once the loop has gone
\* over every campaign; when the iteration of campaign i raises outside the
\* fetch call the run ends there with status 1 and no CSV, the rows computed
\* for the campaigns before i are in no file, and no campaign after i is
\* fetched.
C24_CsvAfterLoop ==
    /\ Len(csv) <= 1
    /\ csv # <<>> =>
          /\ pc = "done" /\ exit_code = 0
          /\ i = Len(campaigns) + 1 /\ Raising = {}
          /\ csv[1].rows = results
    /\ (pc = "done" /\ StartedUp /\ Raising # {}) =>
          /\ exit_code = 1 /\ csv = <<>>
          /\ Raising \cap (1..(i - 1)) = {} /\ i \in Raising
          /\ \A j \in 1..Len(results) : results[j].index < i
          /\ Len(fetches) <= Cardinality(KeptCampaigns \cap (1..i))

\* C24 witness: a run that computed the row of its first campaign, then met a
\* second campaign without location and ended with status 1 and no CSV
C24_Witness ==
    /\ pc = "done" /\ exit_code = 1
    /\ Len(campaigns) = 2 /\ i = 2
    /\ campaigns[2].location = Missing
    /\ Len(results) = 1 /\ results[1].index = 1
    /\ Len(fetches) = 2
    /\ csv = <<>>

(***************************************************************************)
(* A failed listing in the two ensure operations (SpecSetup).              *)
(***************************************************************************)
\* the positions in `calls` of the listing a method made on entry and lost
LostListings(method, listing) ==
    { j \in 2..Len(calls) :
        /\ calls[j].op = listing /\ calls[j].outcome # "ok"
        /\ calls[j - 1].op = method }

\* C25: when the listing inside create_custom_dimension fails, the method
\* goes on with an empty listing and sends the create request for its
\* parameter_name; when the listing inside create_conversion_event fails, the
\* method sends no create request.
C25_FailedListing ==
    /\ \A j \in LostListings("create_custom_dimension",
                             "client.list_custom_dimensions") :
          /\ calls[j].arg = {}
          /\ j < Len(calls)
          /\ calls[j + 1].op = "client.create_custom_dimension"
          /\ calls[j + 1].arg = calls[j - 1].arg
    /\ \A j \in LostListings("create_conversion_event",
                             "client.list_conversion_events") :
          j = Len(calls) \/ calls[j + 1].op # "client.create_conversion_event"

\* C25 witness: the listing failed inside create_custom_dimension for a
\* parameter_name the property already has, and the create request was sent
\* and refused
C25_Witness ==
    \E j \in LostListings("create_custom_dimension",
                          "client.list_custom_dimensions") :
        /\ j < Len(calls)
        /\ calls[j + 1].op = "client.create_custom_dimension"
        /\ calls[j + 1].outcome = "AlreadyExists"
        /\ calls[j - 1].arg \in remote.dimensions

====
